---- MODULE Spec2Model ----
(***************************************************************************)
(* State-machine model of the Kare backend (Flask + SQLAlchemy): the       *)
(* appointment, calendar, payment, client, client-service, user, admin,    *)
(* service and business routes, each handler one action over the           *)
(* persisted tables.                                                       *)
(*                                                                         *)
(* Instants are whole hours counted from 00:00 of day 0, so that the hour  *)
(* of day of t is t % HoursPerDay.  Optional (nullable / absent) values    *)
(* are sets: {} is None / key absent, {v} is the value v.                  *)
(***************************************************************************)
EXTENDS Integers, Sequences, FiniteSets, TLC

VARIABLES
    now,            \* datetime.now(), in hours
    users,          \* table users:      id -> [username, is_active, business_id, password]
    clients,        \* table clients:    id -> [name, is_active, business_id,
                    \*                          email, client_dni, client_id_number]
    services,       \* table service:    id -> [name, is_active, business_id]
    businesses,     \* table business:   id -> [is_active]
    appointments,   \* table appointments: sequence of rows, row i has id i
    calendar,       \* table calendar: set of rows
    payments,       \* table payments: set of rows
    admins,         \* table admins:     id -> [username, is_active, password]
    tokens,         \* the JWTs issued so far: [identity, login]
    client_services,\* table client_service: set of rows
    inflight,       \* bookings past their conflict check, not yet committed
    resp            \* the last request handled and the response it got

entityVars == <<users, clients, services, businesses>>
schedVars == <<appointments, calendar>>
otherVars == <<admins, tokens, client_services, inflight>>
vars == <<now, users, clients, services, businesses, appointments, calendar, payments,
          admins, tokens, client_services, inflight, resp>>

----------------------------------------------------------------------------
\* Bounds of the model.
Now0 == 20
MaxTicks == 1
MaxAppointments == 2
MaxBooked == 1
MaxCalAppointments == 1
MaxEventId == 2
MaxPaymentId == 1
MaxClients == 4
MaxClientServiceId == 2

\* datetime: hours in a day, the range datetime.replace(hour=...) accepts.
HoursPerDay == 24

\* Numeric(10, 2): thousandths in one hundredth, the unit the amount columns keep.
MillsPerCent == 10

None == {}
Some(v) == {v}
The(s) == CHOOSE v \in s : TRUE

Max(S) == CHOOSE m \in S : \A x \in S : x <= m

----------------------------------------------------------------------------
\* Dates on the wire: an ISO-8601 text denoting the instant t, or a text that
\* datetime.fromisoformat rejects.
Iso(t) == <<"iso", t>>
BadIso == <<"bad">>

\* datetime.fromisoformat: the instant, or {} when it raises ValueError.
FromIsoFormat(s) == IF s[1] = "iso" THEN Some(s[2]) ELSE None

\* datetime.isoformat
IsoFormat(t) == Iso(t)

\* The instants requests name: the present (not in the future) and one, two
\* and three hours ahead; the model starts at 20:00 of day 0, so the last of
\* them is 23:00.
DateTimes == {Now0, Now0 + 1, Now0 + 2, Now0 + 3}

ValidStatuses == {"pending", "confirmed", "cancelled", "completed"}

----------------------------------------------------------------------------
\* The seeded tables: business 1 with two active employees, one client and one
\* service; employee 3, client 2, service 2 and business 2 were soft-deleted.
InitUsers ==
    [i \in 1..3 |-> [username |-> <<"user", i>>, is_active |-> (i # 3), business_id |-> 1,
                     password |-> <<"password", "user", i>>]]
InitClients ==
    [i \in 1..2 |-> [name |-> <<"client", i>>, is_active |-> (i = 1), business_id |-> 1,
                     email |-> <<"email", i>>, client_dni |-> <<"dni", i>>,
                     client_id_number |-> <<"CLI", i>>]]
InitServices ==
    [i \in 1..2 |-> [name |-> <<"service", i>>, is_active |-> (i = 1), business_id |-> 1]]
InitBusinesses ==
    [i \in 1..2 |-> [is_active |-> (i = 1)]]
\* The administrator POST /api/admins/setup created.
InitAdmins ==
    [i \in 1..1 |-> [username |-> <<"admin", i>>, is_active |-> TRUE,
                     password |-> <<"password", "admin", i>>]]

\* Model.query.get(id): the row, or {} when there is none.
Get(table, id) == IF id \in DOMAIN table THEN Some(table[id]) ELSE None

\* Users.query.filter_by(username=...).first(), returned as the id.
UserIdByName(name) ==
    LET hit == {i \in DOMAIN users : users[i].username = name}
    IN  IF hit = {} THEN None ELSE Some(CHOOSE i \in hit : \A j \in hit : i <= j)
ClientIdByName(name) ==
    LET hit == {i \in DOMAIN clients : clients[i].name = name}
    IN  IF hit = {} THEN None ELSE Some(CHOOSE i \in hit : \A j \in hit : i <= j)
ServiceIdByName(name) ==
    LET hit == {i \in DOMAIN services : services[i].name = name}
    IN  IF hit = {} THEN None ELSE Some(CHOOSE i \in hit : \A j \in hit : i <= j)

----------------------------------------------------------------------------
\* Responses.
\* loaded is the row the handler fetched by id before acting ({} when none).
Response(op, code, req, body, loaded) ==
    [op |-> op, code |-> code, req |-> req, body |-> body, loaded |-> loaded]

NoBody == <<>>

----------------------------------------------------------------------------
\* POST /api/appointments

\* Faulty variant: every appointment that is not cancelled blocks the slot.
Conflicting_NotCancelled(user_id, date_time) ==
    {i \in 1..Len(appointments) :
        /\ appointments[i].user_id = user_id
        /\ appointments[i].date_time = date_time
        /\ appointments[i].status # "cancelled"}

\* The conflict query: the appointments of this user at exactly this instant
\* whose status is pending or confirmed.
Conflicting(user_id, date_time) ==
    {i \in 1..Len(appointments) :
        /\ appointments[i].user_id = user_id
        /\ appointments[i].date_time = date_time
        /\ appointments[i].status \in {"pending", "confirmed"}}

\* Faulty variant: the event always lasts one hour, whatever duration_hours says.
EndDateTime_OneHour(date_time, event_duration_hours) ==
    LET hour == (date_time % HoursPerDay) + 1
    IN  IF hour \in 0..(HoursPerDay - 1)
        THEN Some((date_time \div HoursPerDay) * HoursPerDay + hour)
        ELSE None

\* date_time.replace(hour=date_time.hour + event_duration_hours): the same day
\* with the hour replaced, or {} when replace raises ValueError because the
\* hour is outside 0..23.
EndDateTime(date_time, event_duration_hours) ==
    LET hour == (date_time % HoursPerDay) + event_duration_hours
    IN  IF hour \in 0..(HoursPerDay - 1)
        THEN Some((date_time \div HoursPerDay) * HoursPerDay + hour)
        ELSE None

\* The id the store gives a new calendar row (rowid: one more than the largest).
NewCalendarId == IF calendar = {} THEN 1 ELSE Max({e.id : e \in calendar}) + 1

\* Faulty variant: the rows flushed before the failure stay.
Rollback_KeepsFlushed(persisted, flushed) == flushed

\* db.session.rollback(): the flushed rows are discarded.
Rollback(persisted, flushed) == persisted

\* db.session.commit(): the flushed rows become the table.
Commit(persisted, flushed) == flushed

\* Faulty variant: the changes made to the loaded row before the return are
\* written to the table.
SessionRemove_Flushes(persisted, pending) == pending

\* A return without db.session.commit(): the session is removed when the
\* request ends and the changes made to the rows it loaded are dropped.
SessionRemove(persisted, pending) == persisted

\* The handler's result: [code, appointments, calendar, body].
Reject(code) ==
    [code |-> code, appointments |-> appointments, calendar |-> calendar, body |-> NoBody]

\* Faulty variant: an appointment at the very instant of the call is accepted.
NotInFuture_AllowsNow(date_time) == date_time < now

\* date_time <= datetime.now()
NotInFuture(date_time) == date_time <= now

\* The INSERTs and the commit of a booking that passed its checks:
\* db.session.add, flush, the calendar event, db.session.commit.
InsertBooking(data, user_id, client_id, service_id, date_time) ==
    LET nueva_appointment ==
            [id |-> Len(appointments) + 1,
             user_id |-> user_id,
             client_id |-> client_id,
             service_id |-> service_id,
             business_id |-> data.business_id,
             date_time |-> date_time,
             status |-> IF data.status = None THEN "pending" ELSE The(data.status)]
        flushed == Append(appointments, nueva_appointment)
        event_duration_hours ==
            IF data.duration_hours = None THEN 1 ELSE The(data.duration_hours)
        end_date_time == EndDateTime(date_time, event_duration_hours)
    IN
    IF end_date_time = None
    THEN [code |-> 500,
          appointments |-> Rollback(appointments, flushed),
          calendar |-> Rollback(calendar, calendar),
          body |-> NoBody]
    ELSE
    LET nuevo_calendar_event ==
            [id |-> NewCalendarId,
             appointment_id |-> nueva_appointment.id,
             business_id |-> data.business_id,
             start_date_time |-> date_time,
             end_date_time |-> The(end_date_time),
             google_event_id |-> None,
             last_sync |-> None]
    IN  [code |-> 201,
         appointments |-> Commit(appointments, flushed),
         calendar |-> Commit(calendar, calendar \cup {nuevo_calendar_event}),
         body |-> [appointment |-> nueva_appointment,
                   calendar_event |-> nuevo_calendar_event]]

\* The checks on the business, the date and the slot; {} when they all pass,
\* else the status code of the refusal.
BookingRefusal(data, user_id) ==
    LET business == Get(businesses, data.business_id)
        parsed == FromIsoFormat(data.date_time)
    IN
    IF business = None \/ ~The(business).is_active THEN Some(404)
    ELSE IF parsed = None THEN Some(400)
    ELSE IF NotInFuture(The(parsed)) THEN Some(400)
    ELSE IF Conflicting(user_id, The(parsed)) # {} THEN Some(409)
    ELSE None

CreateAppointmentResolved(data, user_id, client_id, service_id) ==
    IF BookingRefusal(data, user_id) # None
    THEN Reject(The(BookingRefusal(data, user_id)))
    ELSE InsertBooking(data, user_id, client_id, service_id,
                       The(FromIsoFormat(data.date_time)))

\* Faulty variant: a soft-deleted row passes for an active one.
IsInactive_Never(row) == FALSE

\* not row.is_active
IsInactive(row) == ~row.is_active

CreateAppointmentResult(data) ==
    LET user_id ==
            IF data.user_id # None THEN The(data.user_id)
            ELSE IF UserIdByName(The(data.user_name)) # None
                 THEN The(UserIdByName(The(data.user_name))) ELSE 0
        client_id ==
            IF data.client_id # None THEN The(data.client_id)
            ELSE IF ClientIdByName(The(data.client_name)) # None
                 THEN The(ClientIdByName(The(data.client_name))) ELSE 0
        service_id ==
            IF data.service_id # None THEN The(data.service_id)
            ELSE IF ServiceIdByName(The(data.service_name)) # None
                 THEN The(ServiceIdByName(The(data.service_name))) ELSE 0
    IN
    IF data.business_id = None \/ data.date_time = None THEN Reject(400)
    ELSE IF data.user_id = None /\ data.user_name = None THEN Reject(400)
    ELSE IF Get(users, user_id) = None THEN Reject(404)
    ELSE IF IsInactive(users[user_id]) THEN Reject(400)
    ELSE IF data.client_id = None /\ data.client_name = None THEN Reject(400)
    ELSE IF Get(clients, client_id) = None THEN Reject(404)
    ELSE IF IsInactive(clients[client_id]) THEN Reject(400)
    ELSE IF data.service_id = None /\ data.service_name = None THEN Reject(400)
    ELSE IF Get(services, service_id) = None THEN Reject(404)
    ELSE IF IsInactive(services[service_id]) THEN Reject(400)
    ELSE CreateAppointmentResolved(
            [data EXCEPT !.business_id = The(data.business_id),
                         !.date_time = The(data.date_time)],
            user_id, client_id, service_id)

create_appointment(data) ==
    /\ LET r == CreateAppointmentResult(data)
       IN  /\ appointments' = r.appointments
           /\ calendar' = r.calendar
           /\ resp' = Response("create_appointment", r.code, data, r.body, None)
    /\ UNCHANGED <<now, entityVars, otherVars, payments>>

----------------------------------------------------------------------------
\* Faulty variant: the new date_time is written as soon as it is validated, so
\* a request refused for its status has already moved the appointment.
UpdateAppointmentResult_WritesDate(appointment_id, data) ==
    IF Get(appointments, appointment_id) = None THEN Reject(404)
    ELSE IF data.date_time = None /\ data.status = None THEN Reject(400)
    ELSE
    LET appointment == appointments[appointment_id]
        parsed == IF data.date_time = None THEN None
                  ELSE FromIsoFormat(The(data.date_time))
    IN
    IF data.date_time # None /\ parsed = None THEN Reject(400)
    ELSE IF data.date_time # None /\ NotInFuture(The(parsed)) THEN Reject(400)
    ELSE
    LET dated == IF data.date_time # None
                 THEN [appointment EXCEPT !.date_time = The(parsed)]
                 ELSE appointment
        written == [appointments EXCEPT ![appointment_id] = dated]
    IN
    IF data.status # None /\ The(data.status) \notin ValidStatuses
    THEN [Reject(400) EXCEPT !.appointments = written]
    ELSE
    LET updated == IF data.status # None
                   THEN [dated EXCEPT !.status = The(data.status)]
                   ELSE dated
    IN  [code |-> 200,
         appointments |-> [appointments EXCEPT ![appointment_id] = updated],
         calendar |-> calendar,
         body |-> updated]

----------------------------------------------------------------------------
\* Faulty variant: the update runs the conflict query of the booking against
\* the other appointments and refuses with 409 when the slot is taken.
UpdateAppointmentResult_ChecksConflict(appointment_id, data) ==
    IF Get(appointments, appointment_id) = None THEN Reject(404)
    ELSE IF data.date_time = None /\ data.status = None THEN Reject(400)
    ELSE
    LET appointment == appointments[appointment_id]
        parsed == IF data.date_time = None THEN None
                  ELSE FromIsoFormat(The(data.date_time))
    IN
    IF data.date_time # None /\ parsed = None THEN Reject(400)
    ELSE IF data.date_time # None /\ NotInFuture(The(parsed)) THEN Reject(400)
    ELSE IF data.status # None /\ The(data.status) \notin ValidStatuses THEN Reject(400)
    ELSE
    LET dated == IF data.date_time # None
                 THEN [appointment EXCEPT !.date_time = The(parsed)]
                 ELSE appointment
        updated == IF data.status # None
                   THEN [dated EXCEPT !.status = The(data.status)]
                   ELSE dated
    IN
    IF /\ updated.status \in {"pending", "confirmed"}
       /\ Conflicting(updated.user_id, updated.date_time) \ {appointment_id} # {}
    THEN Reject(409)
    ELSE [code |-> 200,
          appointments |-> [appointments EXCEPT ![appointment_id] = updated],
          calendar |-> calendar,
          body |-> updated]

----------------------------------------------------------------------------
\* Faulty variant: rescheduling an appointment moves the start of its event.
UpdateAppointmentResult_MovesEvent(appointment_id, data) ==
    IF Get(appointments, appointment_id) = None THEN Reject(404)
    ELSE IF data.date_time = None /\ data.status = None THEN Reject(400)
    ELSE
    LET appointment == appointments[appointment_id]
        parsed == IF data.date_time = None THEN None
                  ELSE FromIsoFormat(The(data.date_time))
    IN
    IF data.date_time # None /\ parsed = None THEN Reject(400)
    ELSE IF data.date_time # None /\ NotInFuture(The(parsed)) THEN Reject(400)
    ELSE IF data.status # None /\ The(data.status) \notin ValidStatuses THEN Reject(400)
    ELSE
    LET dated == IF data.date_time # None
                 THEN [appointment EXCEPT !.date_time = The(parsed)]
                 ELSE appointment
        updated == IF data.status # None
                   THEN [dated EXCEPT !.status = The(data.status)]
                   ELSE dated
    IN  [code |-> 200,
         appointments |-> [appointments EXCEPT ![appointment_id] = updated],
         calendar |-> {IF e.appointment_id = appointment_id
                       THEN [e EXCEPT !.start_date_time = updated.date_time]
                       ELSE e : e \in calendar},
         body |-> updated]

----------------------------------------------------------------------------
\* PUT /api/appointments/<appointment_id>
\* A return before db.session.commit() leaves the row as stored: the request's
\* session is removed at teardown and its pending changes are dropped.
UpdateAppointmentResult(appointment_id, data) ==
    IF Get(appointments, appointment_id) = None THEN Reject(404)
    ELSE IF data.date_time = None /\ data.status = None THEN Reject(400)
    ELSE
    LET appointment == appointments[appointment_id]
        parsed == IF data.date_time = None THEN None
                  ELSE FromIsoFormat(The(data.date_time))
    IN
    IF data.date_time # None /\ parsed = None THEN Reject(400)
    ELSE IF data.date_time # None /\ NotInFuture(The(parsed)) THEN Reject(400)
    ELSE
    LET dated == IF data.date_time # None
                 THEN [appointment EXCEPT !.date_time = The(parsed)]
                 ELSE appointment
    IN
    IF data.status # None /\ The(data.status) \notin ValidStatuses THEN Reject(400)
    ELSE
    LET updated == IF data.status # None
                   THEN [dated EXCEPT !.status = The(data.status)]
                   ELSE dated
    IN  [code |-> 200,
         appointments |-> Commit(appointments,
                                 [appointments EXCEPT ![appointment_id] = updated]),
         calendar |-> calendar,
         body |-> updated]

update_appointment(appointment_id, data) ==
    /\ LET r == UpdateAppointmentResult(appointment_id, data)
       IN  /\ appointments' = r.appointments
           /\ calendar' = r.calendar
           /\ resp' = Response("update_appointment", r.code,
                               [appointment_id |-> appointment_id, data |-> data], r.body,
                               Get(appointments, appointment_id))
    /\ UNCHANGED <<now, entityVars, otherVars, payments>>

----------------------------------------------------------------------------
\* Faulty variant: cancelling an appointment that is already cancelled is refused.
DeleteAppointmentResult_OnlyOnce(appointment_id) ==
    IF Get(appointments, appointment_id) = None THEN Reject(404)
    ELSE IF appointments[appointment_id].status = "cancelled" THEN Reject(400)
    ELSE [code |-> 200,
          appointments |-> [appointments EXCEPT ![appointment_id].status = "cancelled"],
          calendar |-> calendar,
          body |-> NoBody]

\* Faulty variant: cancelling an appointment also removes its calendar event.
DeleteAppointmentResult_DropsEvent(appointment_id) ==
    IF Get(appointments, appointment_id) = None THEN Reject(404)
    ELSE [code |-> 200,
          appointments |-> [appointments EXCEPT ![appointment_id].status = "cancelled"],
          calendar |-> {e \in calendar : e.appointment_id # appointment_id},
          body |-> NoBody]

\* Faulty variant: cancelling an appointment deletes its row.
DeleteAppointmentResult_HardDeletes(appointment_id) ==
    IF Get(appointments, appointment_id) = None THEN Reject(404)
    ELSE LET Kept(a) == a.id # appointment_id
         IN  [code |-> 200,
              appointments |-> SelectSeq(appointments, Kept),
              calendar |-> calendar,
              body |-> NoBody]

\* DELETE /api/appointments/<appointment_id>
DeleteAppointmentResult(appointment_id) ==
    IF Get(appointments, appointment_id) = None THEN Reject(404)
    ELSE [code |-> 200,
          appointments |-> Commit(appointments,
                                  [appointments EXCEPT ![appointment_id].status = "cancelled"]),
          calendar |-> calendar,
          body |-> NoBody]

delete_appointment(appointment_id) ==
    /\ LET r == DeleteAppointmentResult(appointment_id)
       IN  /\ appointments' = r.appointments
           /\ calendar' = r.calendar
           /\ resp' = Response("delete_appointment", r.code,
                               [appointment_id |-> appointment_id], r.body,
                               Get(appointments, appointment_id))
    /\ UNCHANGED <<now, entityVars, otherVars, payments>>

----------------------------------------------------------------------------
\* The calendar routes.  A handler's result: [code, calendar, body].

\* JSON null as the value of a key that is present.
JsonNull == "null"

\* Calendar.query.get(event_id)
GetEvent(event_id) ==
    LET hit == {e \in calendar : e.id = event_id}
    IN  IF hit = {} THEN None ELSE Some(The(hit))

\* Faulty variant: the handler does not look for an event of the appointment.
ExistingEvent_NotChecked(appointment_id) == {}

\* Calendar.query.filter_by(appointment_id=...).first()
ExistingEvent(appointment_id) ==
    {e \in calendar : e.appointment_id = appointment_id}

RejectEvent(code) == [code |-> code, calendar |-> calendar, body |-> NoBody]

\* POST /api/calendar
CreateCalendarEventResult(data) ==
    IF data.appointment_id = None \/ data.start_date_time = None
       \/ data.end_date_time = None
    THEN RejectEvent(400)
    ELSE IF Get(appointments, The(data.appointment_id)) = None THEN RejectEvent(404)
    ELSE IF ExistingEvent(The(data.appointment_id)) # {} THEN RejectEvent(409)
    ELSE
    LET appointment == appointments[The(data.appointment_id)]
        start == FromIsoFormat(The(data.start_date_time))
        end == FromIsoFormat(The(data.end_date_time))
    IN
    IF start = None \/ end = None THEN RejectEvent(400)
    ELSE IF The(start) >= The(end) THEN RejectEvent(400)
    ELSE
    LET nuevo_event ==
            [id |-> NewCalendarId,
             appointment_id |-> The(data.appointment_id),
             business_id |-> IF data.business_id = None THEN appointment.business_id
                             ELSE The(data.business_id),
             start_date_time |-> The(start),
             end_date_time |-> The(end),
             google_event_id |-> data.google_event_id \ {JsonNull},
             last_sync |-> IF data.google_event_id \ {JsonNull} # None
                           THEN Some(now) ELSE None]
    IN
    \* calendar.appointment_id is unique: a second row for the appointment makes
    \* the INSERT raise, and the handler rolls back.
    IF \E e \in calendar : e.appointment_id = nuevo_event.appointment_id
    THEN [code |-> 500, calendar |-> Rollback(calendar, calendar \cup {nuevo_event}),
          body |-> NoBody]
    ELSE [code |-> 201, calendar |-> Commit(calendar, calendar \cup {nuevo_event}),
          body |-> nuevo_event]

create_calendar_event(data) ==
    /\ LET r == CreateCalendarEventResult(data)
       IN  /\ calendar' = r.calendar
           /\ resp' = Response("create_calendar_event", r.code, data, r.body, None)
    /\ UNCHANGED <<now, entityVars, otherVars, appointments, payments>>

\* Faulty variant: start and end are compared only when the request carries
\* both; a request with one of them writes it without looking at the other.
UpdateCalendarEventResult_BothOnly(event_id, data) ==
    IF GetEvent(event_id) = None THEN RejectEvent(404)
    ELSE IF data.start_date_time = None /\ data.end_date_time = None
            /\ data.google_event_id = None
    THEN RejectEvent(400)
    ELSE
    LET event == The(GetEvent(event_id))
        dates == data.start_date_time # None \/ data.end_date_time # None
        both == data.start_date_time # None /\ data.end_date_time # None
        start == IF data.start_date_time = None THEN IsoFormat(event.start_date_time)
                 ELSE The(data.start_date_time)
        end == IF data.end_date_time = None THEN IsoFormat(event.end_date_time)
               ELSE The(data.end_date_time)
        start_date_time == FromIsoFormat(start)
        end_date_time == FromIsoFormat(end)
    IN
    IF dates /\ (start_date_time = None \/ end_date_time = None) THEN RejectEvent(400)
    ELSE IF both /\ The(start_date_time) >= The(end_date_time) THEN RejectEvent(400)
    ELSE
    LET dated == IF dates
                 THEN [event EXCEPT !.start_date_time = The(start_date_time),
                                    !.end_date_time = The(end_date_time)]
                 ELSE event
        updated == IF data.google_event_id # None
                   THEN [dated EXCEPT
                           !.google_event_id =
                               IF The(data.google_event_id) = JsonNull THEN None
                               ELSE data.google_event_id,
                           !.last_sync = Some(now)]
                   ELSE dated
    IN  [code |-> 200,
         calendar |-> (calendar \ {event}) \cup {updated},
         body |-> updated]

\* PUT /api/calendar/<event_id>
UpdateCalendarEventResult(event_id, data) ==
    IF GetEvent(event_id) = None THEN RejectEvent(404)
    ELSE IF data.start_date_time = None /\ data.end_date_time = None
            /\ data.google_event_id = None
    THEN RejectEvent(400)
    ELSE
    LET event == The(GetEvent(event_id))
        dates == data.start_date_time # None \/ data.end_date_time # None
        start == IF data.start_date_time = None THEN IsoFormat(event.start_date_time)
                 ELSE The(data.start_date_time)
        end == IF data.end_date_time = None THEN IsoFormat(event.end_date_time)
               ELSE The(data.end_date_time)
        start_date_time == FromIsoFormat(start)
        end_date_time == FromIsoFormat(end)
    IN
    IF dates /\ (start_date_time = None \/ end_date_time = None) THEN RejectEvent(400)
    ELSE IF dates /\ The(start_date_time) >= The(end_date_time) THEN RejectEvent(400)
    ELSE
    LET dated == IF dates
                 THEN [event EXCEPT !.start_date_time = The(start_date_time),
                                    !.end_date_time = The(end_date_time)]
                 ELSE event
        updated == IF data.google_event_id # None
                   THEN [dated EXCEPT
                           !.google_event_id =
                               IF The(data.google_event_id) = JsonNull THEN None
                               ELSE data.google_event_id,
                           !.last_sync = Some(now)]
                   ELSE dated
    IN  [code |-> 200,
         calendar |-> Commit(calendar, (calendar \ {event}) \cup {updated}),
         body |-> updated]

update_calendar_event(event_id, data) ==
    /\ LET r == UpdateCalendarEventResult(event_id, data)
       IN  /\ calendar' = r.calendar
           /\ resp' = Response("update_calendar_event", r.code,
                               [event_id |-> event_id, data |-> data], r.body,
                               GetEvent(event_id))
    /\ UNCHANGED <<now, entityVars, otherVars, appointments, payments>>

\* DELETE /api/calendar/<event_id>
DeleteCalendarEventResult(event_id) ==
    IF GetEvent(event_id) = None THEN RejectEvent(404)
    ELSE [code |-> 200,
          calendar |-> Commit(calendar, calendar \ {The(GetEvent(event_id))}),
          body |-> NoBody]

delete_calendar_event(event_id) ==
    /\ LET r == DeleteCalendarEventResult(event_id)
       IN  /\ calendar' = r.calendar
           /\ resp' = Response("delete_calendar_event", r.code,
                               [event_id |-> event_id], r.body, GetEvent(event_id))
    /\ UNCHANGED <<now, entityVars, otherVars, appointments, payments>>

\* POST /api/calendar/<event_id>/sync-google
\* google is the provider's answer to the one call the handler makes:
\* [status_code, id], id the "id" of the JSON body ({} when it has none).

\* Faulty variant: the provider's status is not looked at.
ProviderFailed_Ignored(status_code) == FALSE

\* response.status_code != 200
ProviderFailed(status_code) == status_code # 200

\* Faulty variant: the update path also takes the identifier of the answer.
SyncUpdated_TakesId(event, google) ==
    [event EXCEPT !.google_event_id = google.id, !.last_sync = Some(now)]

\* The event after requests.put succeeded.
SyncUpdated(event, google) == [event EXCEPT !.last_sync = Some(now)]

\* The event after requests.post succeeded.
SyncCreated(event, google) ==
    [event EXCEPT !.google_event_id = google.id, !.last_sync = Some(now)]

\* The call to the provider: none when the request is refused before it, else
\* a PUT of the event's identifier or a POST.
SyncCall(event_id, data) ==
    IF GetEvent(event_id) = None \/ data.access_token = None THEN <<>>
    ELSE IF The(GetEvent(event_id)).google_event_id # None
         THEN <<"PUT", The(The(GetEvent(event_id)).google_event_id)>>
         ELSE <<"POST">>

SyncEventResult(event_id, data, google) ==
    IF GetEvent(event_id) = None THEN RejectEvent(404)
    ELSE IF data.access_token = None THEN RejectEvent(400)
    ELSE
    LET event == The(GetEvent(event_id)) IN
    IF event.google_event_id # None
    THEN \* requests.put(.../events/<google_event_id>)
         IF ProviderFailed(google.status_code) THEN RejectEvent(400)
         ELSE LET synced == SyncUpdated(event, google)
              IN  [code |-> 200,
                   calendar |-> Commit(calendar, (calendar \ {event}) \cup {synced}),
                   body |-> [google_event_id |-> google.id, calendar_event |-> synced]]
    ELSE \* requests.post(.../events)
         IF ProviderFailed(google.status_code) THEN RejectEvent(400)
         ELSE LET synced == SyncCreated(event, google)
              IN  [code |-> 201,
                   calendar |-> Commit(calendar, (calendar \ {event}) \cup {synced}),
                   body |-> [google_event_id |-> google.id, calendar_event |-> synced]]

sync_event_with_google(event_id, data, google) ==
    /\ LET r == SyncEventResult(event_id, data, google)
       IN  /\ calendar' = r.calendar
           /\ resp' = Response("sync_event_with_google", r.code,
                               [event_id |-> event_id, data |-> data, google |-> google,
                                call |-> SyncCall(event_id, data)],
                               r.body, GetEvent(event_id))
    /\ UNCHANGED <<now, entityVars, otherVars, appointments, payments>>

----------------------------------------------------------------------------
\* The payment routes.  Amounts are counted in thousandths; an amount on the
\* wire is a decimal numeral or a text Decimal() rejects.  A handler's result:
\* [code, payments, body].

Num(v) == <<"num", v>>
BadNumber == <<"nan">>

\* Decimal(str(x)): the amount, or {} when it raises InvalidOperation.
ToDecimal(text) == IF text[1] = "num" THEN Some(text[2]) ELSE None

\* Numeric(10, 2): a column keeps two decimals, rounding the value written.
Quantize(v) == ((v + (MillsPerCent \div 2)) \div MillsPerCent) * MillsPerCent

\* The row as the table holds it.
Stored(payment) ==
    [payment EXCEPT !.estimated_total = Quantize(payment.estimated_total),
                    !.payments_made = Quantize(payment.payments_made)]

\* A JSON null sent where a date text is expected.
NullDate == <<"null">>

\* datetime.fromisoformat(text).date()
DateOf(t) == t \div HoursPerDay

\* Payments.query.get(payment_id)
GetPayment(payment_id) ==
    LET hit == {q \in payments : q.id = payment_id}
    IN  IF hit = {} THEN None ELSE Some(The(hit))

NewPaymentId == IF payments = {} THEN 1 ELSE Max({q.id : q \in payments}) + 1

RejectPayment(code) == [code |-> code, payments |-> payments, body |-> NoBody]

\* A refusal after fields of the request were applied to the loaded row:
\* pending is that row as the handler left it.
RejectPaymentAfter(code, payment, pending) ==
    [code |-> code,
     payments |-> SessionRemove(payments, (payments \ {payment}) \cup {pending}),
     body |-> NoBody]

\* The status the handlers derive from the amounts they hold.
DerivedStatus(payments_made, estimated_total) ==
    IF payments_made = estimated_total THEN "paid" ELSE "pending"

ValidMethods == {"cash", "card"}

\* POST /api/payments
CreatePaymentResult(data) ==
    IF data.client_id = None \/ data.payment_method = None \/ data.estimated_total = None
    THEN RejectPayment(400)
    ELSE IF Get(clients, The(data.client_id)) = None
            \/ ~clients[The(data.client_id)].is_active
    THEN RejectPayment(404)
    ELSE IF The(data.payment_method) \notin ValidMethods THEN RejectPayment(400)
    ELSE
    LET estimated_total == ToDecimal(The(data.estimated_total)) IN
    IF estimated_total = None THEN RejectPayment(400)
    ELSE IF The(estimated_total) <= 0 THEN RejectPayment(400)
    ELSE
    LET payments_made == IF data.payments_made = None THEN Some(0)
                         ELSE ToDecimal(The(data.payments_made))
    IN
    IF payments_made = None THEN RejectPayment(500)
    ELSE IF The(payments_made) < 0 THEN RejectPayment(400)
    ELSE IF The(payments_made) > The(estimated_total) THEN RejectPayment(400)
    ELSE
    LET parsed == IF data.payment_date = None THEN None
                  ELSE FromIsoFormat(The(data.payment_date))
    IN
    IF data.payment_date # None /\ parsed = None THEN RejectPayment(400)
    ELSE
    LET nuevo_payment ==
            Stored([id |-> NewPaymentId,
                    client_id |-> The(data.client_id),
                    payment_method |-> The(data.payment_method),
                    estimated_total |-> The(estimated_total),
                    payments_made |-> The(payments_made),
                    payment_date |-> IF parsed = None THEN None
                                     ELSE Some(DateOf(The(parsed))),
                    status |-> DerivedStatus(The(payments_made), The(estimated_total))])
    IN  [code |-> 201,
         payments |-> Commit(payments, payments \cup {nuevo_payment}),
         body |-> nuevo_payment]

create_payment(data) ==
    /\ LET r == CreatePaymentResult(data)
       IN  /\ payments' = r.payments
           /\ resp' = Response("create_payment", r.code, data, r.body, None)
    /\ UNCHANGED <<now, entityVars, otherVars, schedVars>>

\* PUT /api/payments/<payment_id>
\* The fields are validated and applied to the loaded row one after the other;
\* a return before db.session.commit() leaves the table as it was.
UpdatePaymentResult(payment_id, data) ==
    IF GetPayment(payment_id) = None THEN RejectPayment(404)
    ELSE IF data.payment_method = None /\ data.payments_made = None
            /\ data.estimated_total = None /\ data.payment_date = None
    THEN RejectPayment(400)
    ELSE
    LET payment == The(GetPayment(payment_id)) IN
    IF data.payment_method # None /\ The(data.payment_method) \notin ValidMethods
    THEN RejectPayment(400)
    ELSE
    LET p1 == IF data.payment_method # None
              THEN [payment EXCEPT !.payment_method = The(data.payment_method)]
              ELSE payment
        payments_made == IF data.payments_made = None THEN None
                         ELSE ToDecimal(The(data.payments_made))
    IN
    IF data.payments_made # None
       /\ (\/ payments_made = None
           \/ The(payments_made) < 0
           \/ The(payments_made) > p1.estimated_total)
    THEN RejectPaymentAfter(400, payment, p1)
    ELSE
    LET p2 == IF data.payments_made # None
              THEN [p1 EXCEPT !.payments_made = The(payments_made)]
              ELSE p1
        estimated_total == IF data.estimated_total = None THEN None
                           ELSE ToDecimal(The(data.estimated_total))
    IN
    IF data.estimated_total # None
       /\ (\/ estimated_total = None
           \/ The(estimated_total) <= 0
           \/ p2.payments_made > The(estimated_total))
    THEN RejectPaymentAfter(400, payment, p2)
    ELSE
    LET p3 == IF data.estimated_total # None
              THEN [p2 EXCEPT !.estimated_total = The(estimated_total)]
              ELSE p2
        parsed == IF data.payment_date = None \/ data.payment_date = Some(NullDate)
                  THEN None
                  ELSE FromIsoFormat(The(data.payment_date))
    IN
    IF data.payment_date # None /\ data.payment_date # Some(NullDate) /\ parsed = None
    THEN RejectPaymentAfter(400, payment, p3)
    ELSE
    LET p4 == IF data.payment_date = None THEN p3
              ELSE [p3 EXCEPT !.payment_date =
                        IF parsed = None THEN None ELSE Some(DateOf(The(parsed)))]
        updated == Stored([p4 EXCEPT !.status =
                              DerivedStatus(p4.payments_made, p4.estimated_total)])
    IN  [code |-> 200,
         payments |-> Commit(payments, (payments \ {payment}) \cup {updated}),
         body |-> updated]

update_payment(payment_id, data) ==
    /\ LET r == UpdatePaymentResult(payment_id, data)
       IN  /\ payments' = r.payments
           /\ resp' = Response("update_payment", r.code,
                               [payment_id |-> payment_id, data |-> data], r.body,
                               GetPayment(payment_id))
    /\ UNCHANGED <<now, entityVars, otherVars, schedVars>>

\* DELETE /api/payments/<payment_id>
DeletePaymentResult(payment_id) ==
    IF GetPayment(payment_id) = None THEN RejectPayment(404)
    ELSE [code |-> 200,
          payments |-> Commit(payments, payments \ {The(GetPayment(payment_id))}),
          body |-> NoBody]

delete_payment(payment_id) ==
    /\ LET r == DeletePaymentResult(payment_id)
       IN  /\ payments' = r.payments
           /\ resp' = Response("delete_payment", r.code,
                               [payment_id |-> payment_id], r.body,
                               GetPayment(payment_id))
    /\ UNCHANGED <<now, entityVars, otherVars, schedVars>>

\* Faulty variant: the instalment is added without comparing the sum with the total.
ExceedsTotal_NotChecked(new_total, estimated_total) == FALSE

\* new_total > payment.estimated_total
ExceedsTotal(new_total, estimated_total) == new_total > estimated_total

\* POST /api/payments/<payment_id>/add-payment
AddPaymentResult(payment_id, data) ==
    IF GetPayment(payment_id) = None THEN RejectPayment(404)
    ELSE IF data.amount = None THEN RejectPayment(400)
    ELSE
    LET payment == The(GetPayment(payment_id))
        amount == ToDecimal(The(data.amount))
    IN
    IF amount = None THEN RejectPayment(400)
    ELSE IF The(amount) <= 0 THEN RejectPayment(400)
    ELSE
    LET new_total == payment.payments_made + The(amount) IN
    IF ExceedsTotal(new_total, payment.estimated_total) THEN RejectPayment(400)
    ELSE
    LET p1 == [payment EXCEPT !.payments_made = new_total]
        p2 == IF data.payment_method # None /\ The(data.payment_method) \in ValidMethods
              THEN [p1 EXCEPT !.payment_method = The(data.payment_method)]
              ELSE p1
        parsed == IF data.payment_date = None THEN None
                  ELSE FromIsoFormat(The(data.payment_date))
    IN
    IF data.payment_date # None /\ parsed = None
    THEN RejectPaymentAfter(400, payment, p2)
    ELSE
    LET p3 == IF data.payment_date = None THEN p2
              ELSE [p2 EXCEPT !.payment_date = Some(DateOf(The(parsed)))]
        updated == Stored([p3 EXCEPT !.status =
                              DerivedStatus(p3.payments_made, p3.estimated_total)])
    IN  [code |-> 200,
         payments |-> Commit(payments, (payments \ {payment}) \cup {updated}),
         body |-> updated]

add_payment_to_record(payment_id, data) ==
    /\ LET r == AddPaymentResult(payment_id, data)
       IN  /\ payments' = r.payments
           /\ resp' = Response("add_payment_to_record", r.code,
                               [payment_id |-> payment_id, data |-> data], r.body,
                               GetPayment(payment_id))
    /\ UNCHANGED <<now, entityVars, otherVars, schedVars>>

----------------------------------------------------------------------------
\* Soft deletion and update of employees, clients, services and businesses.
\* The bodies of the updates carry the keys the tables of the model hold;
\* a key that is absent is None.

EntityResponse(op, code, id, data) ==
    Response(op, code, [id |-> id, data |-> data], NoBody, None)

\* DELETE /api/users/<user_id>
delete_user(user_id) ==
    /\ IF Get(users, user_id) = None
       THEN /\ users' = users
            /\ resp' = EntityResponse("delete_user", 404, user_id, NoBody)
       ELSE /\ users' = Commit(users, [users EXCEPT ![user_id].is_active = FALSE])
            /\ resp' = EntityResponse("delete_user", 200, user_id, NoBody)
    /\ UNCHANGED <<now, clients, services, businesses, schedVars, payments, otherVars>>

\* PUT /api/users/<user_id>
update_user(user_id, data) ==
    /\ IF Get(users, user_id) = None
       THEN /\ users' = users
            /\ resp' = EntityResponse("update_user", 404, user_id, data)
       ELSE IF data.username = None /\ data.is_active = None
       THEN /\ users' = users
            /\ resp' = EntityResponse("update_user", 400, user_id, data)
       ELSE IF /\ data.username # None
               /\ UserIdByName(The(data.username)) \notin {None, Some(user_id)}
       THEN /\ users' = users
            /\ resp' = EntityResponse("update_user", 409, user_id, data)
       ELSE LET u1 == IF data.username = None THEN users[user_id]
                      ELSE [users[user_id] EXCEPT !.username = The(data.username)]
                u2 == IF data.is_active = None THEN u1
                      ELSE [u1 EXCEPT !.is_active = The(data.is_active)]
            IN  /\ users' = Commit(users, [users EXCEPT ![user_id] = u2])
                /\ resp' = EntityResponse("update_user", 200, user_id, data)
    /\ UNCHANGED <<now, clients, services, businesses, schedVars, payments, otherVars>>

\* Clients.query.filter_by(email=...).first(), returned as the id.
ClientIdByEmail(email) ==
    LET hit == {i \in DOMAIN clients : clients[i].email = email}
    IN  IF hit = {} THEN None ELSE Some(CHOOSE i \in hit : \A j \in hit : i <= j)

\* DELETE /api/clients/<client_id>
delete_client(client_id) ==
    /\ IF Get(clients, client_id) = None
       THEN /\ clients' = clients
            /\ resp' = EntityResponse("delete_client", 404, client_id, NoBody)
       ELSE /\ clients' = Commit(clients, [clients EXCEPT ![client_id].is_active = FALSE])
            /\ resp' = EntityResponse("delete_client", 200, client_id, NoBody)
    /\ UNCHANGED <<now, users, services, businesses, schedVars, payments, otherVars>>

\* PUT /api/clients/<client_id>
update_client(client_id, data) ==
    /\ IF Get(clients, client_id) = None
       THEN /\ clients' = clients
            /\ resp' = EntityResponse("update_client", 404, client_id, data)
       ELSE IF data.name = None /\ data.email = None /\ data.is_active = None
       THEN /\ clients' = clients
            /\ resp' = EntityResponse("update_client", 400, client_id, data)
       ELSE IF /\ data.email # None
               /\ ClientIdByEmail(The(data.email)) \notin {None, Some(client_id)}
       THEN /\ clients' = clients
            /\ resp' = EntityResponse("update_client", 409, client_id, data)
       ELSE LET c1 == IF data.name = None THEN clients[client_id]
                      ELSE [clients[client_id] EXCEPT !.name = The(data.name)]
                c2 == IF data.email = None THEN c1
                      ELSE [c1 EXCEPT !.email = The(data.email)]
                c3 == IF data.is_active = None THEN c2
                      ELSE [c2 EXCEPT !.is_active = The(data.is_active)]
            IN  /\ clients' = Commit(clients, [clients EXCEPT ![client_id] = c3])
                /\ resp' = EntityResponse("update_client", 200, client_id, data)
    /\ UNCHANGED <<now, users, services, businesses, schedVars, payments, otherVars>>

\* DELETE /api/services/<service_id>
delete_service(service_id) ==
    /\ IF Get(services, service_id) = None
       THEN /\ services' = services
            /\ resp' = EntityResponse("delete_service", 404, service_id, NoBody)
       ELSE /\ services' = Commit(services,
                                  [services EXCEPT ![service_id].is_active = FALSE])
            /\ resp' = EntityResponse("delete_service", 200, service_id, NoBody)
    /\ UNCHANGED <<now, users, clients, businesses, schedVars, payments, otherVars>>

\* PUT /api/services/<service_id>
update_service(service_id, data) ==
    /\ IF Get(services, service_id) = None
       THEN /\ services' = services
            /\ resp' = EntityResponse("update_service", 404, service_id, data)
       ELSE IF data.name = None /\ data.is_active = None
       THEN /\ services' = services
            /\ resp' = EntityResponse("update_service", 400, service_id, data)
       ELSE LET s1 == IF data.name = None THEN services[service_id]
                      ELSE [services[service_id] EXCEPT !.name = The(data.name)]
                s2 == IF data.is_active = None THEN s1
                      ELSE [s1 EXCEPT !.is_active = The(data.is_active)]
            IN  /\ services' = Commit(services, [services EXCEPT ![service_id] = s2])
                /\ resp' = EntityResponse("update_service", 200, service_id, data)
    /\ UNCHANGED <<now, users, clients, businesses, schedVars, payments, otherVars>>

\* DELETE /api/businesses/<business_id>
delete_business(business_id) ==
    /\ IF Get(businesses, business_id) = None
       THEN /\ businesses' = businesses
            /\ resp' = EntityResponse("delete_business", 404, business_id, NoBody)
       ELSE /\ businesses' = Commit(businesses,
                                    [businesses EXCEPT ![business_id].is_active = FALSE])
            /\ resp' = EntityResponse("delete_business", 200, business_id, NoBody)
    /\ UNCHANGED <<now, users, clients, services, schedVars, payments, otherVars>>

\* PUT /api/businesses/<business_id>
update_business(business_id, data) ==
    /\ IF Get(businesses, business_id) = None
       THEN /\ businesses' = businesses
            /\ resp' = EntityResponse("update_business", 404, business_id, data)
       ELSE IF data.is_active = None
       THEN /\ businesses' = businesses
            /\ resp' = EntityResponse("update_business", 400, business_id, data)
       ELSE /\ businesses' = Commit(businesses,
                  [businesses EXCEPT ![business_id].is_active = The(data.is_active)])
            /\ resp' = EntityResponse("update_business", 200, business_id, data)
    /\ UNCHANGED <<now, users, clients, services, schedVars, payments, otherVars>>

----------------------------------------------------------------------------
\* POST /api/clients

\* f"CLI-{new_number:03d}"
ClientIdNumber(new_number) == <<"CLI", new_number>>

\* int(client_id_number.split('-')[1])
NumberOf(client_id_number) == client_id_number[2]

\* Clients.query.filter_by(client_dni=...).first(), returned as the id.
ClientIdByDni(client_dni) ==
    LET hit == {i \in DOMAIN clients : clients[i].client_dni = client_dni}
    IN  IF hit = {} THEN None ELSE Some(CHOOSE i \in hit : \A j \in hit : i <= j)

\* Clients.query.filter_by(business_id=...).order_by(Clients.id.desc()).first()
LastClient(business_id) ==
    LET of == {i \in DOMAIN clients : clients[i].business_id = business_id}
    IN  IF of = {} THEN None ELSE Some(clients[Max(of)])

\* [code, clients, body]; the column client_id_number is unique over the whole
\* table, so an INSERT that repeats one raises IntegrityError.
CreateClientResult(data) ==
    LET refuse(code) == [code |-> code, clients |-> clients, body |-> NoBody] IN
    IF \/ data.name = None \/ data.phone = None \/ data.client_dni = None
       \/ data.email = None \/ data.business_id = None
    THEN refuse(400)
    ELSE IF Get(businesses, The(data.business_id)) = None THEN refuse(404)
    ELSE IF ClientIdByEmail(The(data.email)) # None THEN refuse(409)
    ELSE IF ClientIdByDni(The(data.client_dni)) # None THEN refuse(409)
    ELSE
    LET last_client == LastClient(The(data.business_id))
        new_number == IF last_client # None
                      THEN NumberOf(The(last_client).client_id_number) + 1
                      ELSE 1
        nuevo_client == [name |-> The(data.name),
                         is_active |-> TRUE,
                         business_id |-> The(data.business_id),
                         email |-> The(data.email),
                         client_dni |-> The(data.client_dni),
                         client_id_number |-> ClientIdNumber(new_number)]
        added == Append(clients, nuevo_client)
    IN
    IF \E i \in DOMAIN clients :
          clients[i].client_id_number = nuevo_client.client_id_number
    THEN [code |-> 500, clients |-> Rollback(clients, added), body |-> NoBody]
    ELSE [code |-> 201, clients |-> Commit(clients, added), body |-> nuevo_client]

create_client(data) ==
    /\ LET r == CreateClientResult(data)
       IN  /\ clients' = r.clients
           /\ resp' = Response("create_client", r.code, data, r.body,
                               IF data.business_id = None THEN None
                               ELSE LastClient(The(data.business_id)))
    /\ UNCHANGED <<now, users, services, businesses, schedVars, payments, otherVars>>

----------------------------------------------------------------------------
\* The client-service routes.  A handler's result: [code, client_services, body].

\* ClientService.query.get(client_service_id)
GetClientService(client_service_id) ==
    LET hit == {c \in client_services : c.id = client_service_id}
    IN  IF hit = {} THEN None ELSE Some(The(hit))

NewClientServiceId ==
    IF client_services = {} THEN 1 ELSE Max({c.id : c \in client_services}) + 1

RejectClientService(code) ==
    [code |-> code, client_services |-> client_services, body |-> NoBody]

\* POST /api/client-services
CreateClientServiceResult(data) ==
    IF data.client_id = None \/ data.service_id = None THEN RejectClientService(400)
    ELSE IF Get(clients, The(data.client_id)) = None
            \/ ~clients[The(data.client_id)].is_active
    THEN RejectClientService(404)
    ELSE IF Get(services, The(data.service_id)) = None
            \/ ~services[The(data.service_id)].is_active
    THEN RejectClientService(404)
    ELSE IF \E c \in client_services :
               /\ c.client_id = The(data.client_id)
               /\ c.service_id = The(data.service_id)
               /\ ~c.completed
    THEN RejectClientService(409)
    ELSE
    LET nuevo_client_service ==
            [id |-> NewClientServiceId,
             client_id |-> The(data.client_id),
             service_id |-> The(data.service_id),
             completed |-> FALSE,
             completed_date |-> None]
    IN  [code |-> 201,
         client_services |->
             Commit(client_services, client_services \cup {nuevo_client_service}),
         body |-> nuevo_client_service]

create_client_service(data) ==
    /\ LET r == CreateClientServiceResult(data)
       IN  /\ client_services' = r.client_services
           /\ resp' = Response("create_client_service", r.code, data, r.body, None)
    /\ UNCHANGED <<now, entityVars, schedVars, payments, admins, tokens, inflight>>

\* PUT /api/client-services/<client_service_id>/complete
\* completed is set on the loaded row before the date is parsed; the return on
\* a date that does not parse comes before db.session.commit().
CompleteClientServiceResult(client_service_id, data) ==
    IF GetClientService(client_service_id) = None THEN RejectClientService(404)
    ELSE
    LET client_service == The(GetClientService(client_service_id))
        c1 == [client_service EXCEPT !.completed = TRUE]
        parsed == IF data.completed_date = None THEN Some(now)
                  ELSE FromIsoFormat(The(data.completed_date))
    IN
    IF parsed = None THEN RejectClientService(400)
    ELSE
    LET c2 == [c1 EXCEPT !.completed_date = parsed]
    IN  [code |-> 200,
         client_services |->
             Commit(client_services, (client_services \ {client_service}) \cup {c2}),
         body |-> c2]

complete_client_service(client_service_id, data) ==
    /\ LET r == CompleteClientServiceResult(client_service_id, data)
       IN  /\ client_services' = r.client_services
           /\ resp' = Response("complete_client_service", r.code,
                               [client_service_id |-> client_service_id, data |-> data],
                               r.body, GetClientService(client_service_id))
    /\ UNCHANGED <<now, entityVars, schedVars, payments, admins, tokens, inflight>>

\* Faulty variant: the row goes back to pending with the date it had.
MarkedPending_KeepsDate(client_service) ==
    [client_service EXCEPT !.completed = FALSE]

\* client_service.completed = False; client_service.completed_date = None
MarkedPending(client_service) ==
    [client_service EXCEPT !.completed = FALSE, !.completed_date = None]

\* PUT /api/client-services/<client_service_id>/pending
MarkPendingClientServiceResult(client_service_id) ==
    IF GetClientService(client_service_id) = None THEN RejectClientService(404)
    ELSE
    LET client_service == The(GetClientService(client_service_id))
        pending == MarkedPending(client_service)
    IN  [code |-> 200,
         client_services |->
             Commit(client_services,
                    (client_services \ {client_service}) \cup {pending}),
         body |-> pending]

mark_pending_client_service(client_service_id) ==
    /\ LET r == MarkPendingClientServiceResult(client_service_id)
       IN  /\ client_services' = r.client_services
           /\ resp' = Response("mark_pending_client_service", r.code,
                               [client_service_id |-> client_service_id],
                               r.body, GetClientService(client_service_id))
    /\ UNCHANGED <<now, entityVars, schedVars, payments, admins, tokens, inflight>>

\* DELETE /api/client-services/<client_service_id>
DeleteClientServiceResult(client_service_id) ==
    IF GetClientService(client_service_id) = None THEN RejectClientService(404)
    ELSE [code |-> 200,
          client_services |->
              Commit(client_services,
                     client_services \ {The(GetClientService(client_service_id))}),
          body |-> NoBody]

delete_client_service(client_service_id) ==
    /\ LET r == DeleteClientServiceResult(client_service_id)
       IN  /\ client_services' = r.client_services
           /\ resp' = Response("delete_client_service", r.code,
                               [client_service_id |-> client_service_id],
                               r.body, GetClientService(client_service_id))
    /\ UNCHANGED <<now, entityVars, schedVars, payments, admins, tokens, inflight>>

----------------------------------------------------------------------------
\* Authentication.  A JWT carries the identity it was created with, str(id);
\* login records which login route issued it, which the token does not carry.

Token(identity, login) == [identity |-> identity, login |-> login]

\* row.check_password(password)
CheckPassword(row, password) == row.password = password

\* Admins.query.filter_by(username=...).first(), returned as the id.
AdminIdByName(name) ==
    LET hit == {i \in DOMAIN admins : admins[i].username = name}
    IN  IF hit = {} THEN None ELSE Some(CHOOSE i \in hit : \A j \in hit : i <= j)

\* The response of a login: [code, token], token {} when none is issued.
LoginResult(table, id, data) ==
    IF data.username = None \/ data.password = None THEN [code |-> 400, token |-> None]
    ELSE IF id = None THEN [code |-> 401, token |-> None]
    ELSE IF ~CheckPassword(table[The(id)], The(data.password))
    THEN [code |-> 401, token |-> None]
    ELSE IF ~table[The(id)].is_active THEN [code |-> 403, token |-> None]
    ELSE [code |-> 200, token |-> Some(The(id))]

\* POST /api/users/login
login_user(data) ==
    /\ LET r == LoginResult(users,
                    IF data.username = None THEN None
                    ELSE UserIdByName(The(data.username)), data)
       IN  /\ tokens' = tokens \cup {Token(i, "user") : i \in r.token}
           /\ resp' = Response("login_user", r.code, data,
                               {Token(i, "user") : i \in r.token}, None)
    /\ UNCHANGED <<now, entityVars, schedVars, payments, admins, client_services,
                   inflight>>

\* POST /api/admins/login
login_admin(data) ==
    /\ LET r == LoginResult(admins,
                    IF data.username = None THEN None
                    ELSE AdminIdByName(The(data.username)), data)
       IN  /\ tokens' = tokens \cup {Token(i, "admin") : i \in r.token}
           /\ resp' = Response("login_admin", r.code, data,
                               {Token(i, "admin") : i \in r.token}, None)
    /\ UNCHANGED <<now, entityVars, schedVars, payments, admins, client_services,
                   inflight>>

\* The decorator admin_required: the response it gives by itself, {} when it
\* calls the handler.  It looks the token's identity up in the admins table.
admin_required(token) ==
    LET admin == Get(admins, token.identity)
    IN  IF admin = None \/ ~The(admin).is_active THEN Some(403) ELSE None

\* DELETE /api/payments/<payment_id> called with a token
delete_payment_with(token, payment_id) ==
    /\ IF admin_required(token) # None
       THEN /\ payments' = payments
            /\ resp' = Response("delete_payment", The(admin_required(token)),
                                [payment_id |-> payment_id, token |-> token],
                                NoBody, None)
       ELSE LET r == DeletePaymentResult(payment_id)
            IN  /\ payments' = r.payments
                /\ resp' = Response("delete_payment", r.code,
                                    [payment_id |-> payment_id, token |-> token],
                                    r.body, GetPayment(payment_id))
    /\ UNCHANGED <<now, entityVars, otherVars, schedVars>>

\* DELETE /api/users/<user_id> called with a token
delete_user_with(token, user_id) ==
    /\ IF admin_required(token) # None
       THEN /\ users' = users
            /\ resp' = Response("delete_user", The(admin_required(token)),
                                [id |-> user_id, token |-> token], NoBody, None)
       ELSE IF Get(users, user_id) = None
       THEN /\ users' = users
            /\ resp' = Response("delete_user", 404,
                                [id |-> user_id, token |-> token], NoBody, None)
       ELSE /\ users' = Commit(users, [users EXCEPT ![user_id].is_active = FALSE])
            /\ resp' = Response("delete_user", 200,
                                [id |-> user_id, token |-> token], NoBody,
                                Get(users, user_id))
    /\ UNCHANGED <<now, clients, services, businesses, schedVars, payments, otherVars>>

----------------------------------------------------------------------------
\* Bookings served by concurrent workers.  Nothing is locked between the
\* conflict query and the commit, so a booking is two steps: the checks, read
\* from the committed tables, and later the INSERTs and the commit.

\* The checks of worker w's booking: a refusal is answered at once, a booking
\* that passes waits for its commit.
check_appointment(w, data) ==
    /\ \A r \in inflight : r.worker # w
    /\ LET \* 201 and 500 are the answers given after the INSERT
           refused == IF CreateAppointmentResult(data).code \in {201, 500}
                      THEN None ELSE Some(CreateAppointmentResult(data).code)
       IN  IF refused # None
           THEN /\ inflight' = inflight
                /\ resp' = Response("create_appointment", The(refused),
                                    data, NoBody, None)
           ELSE /\ inflight' = inflight \cup
                       {[worker |-> w, data |-> data,
                         user_id |-> The(data.user_id),
                         client_id |-> The(data.client_id),
                         service_id |-> The(data.service_id),
                         date_time |-> The(FromIsoFormat(The(data.date_time)))]}
                /\ resp' = Response("check_appointment", 0, data, NoBody, None)
    /\ UNCHANGED <<now, entityVars, schedVars, payments, admins, tokens, client_services>>

\* Faulty variant: the commit looks for a conflicting appointment again.
CommitBookingResult_Rechecks(r) ==
    IF Conflicting(r.user_id, r.date_time) # {} THEN Reject(409)
    ELSE InsertBooking([r.data EXCEPT !.business_id = The(r.data.business_id)],
                       r.user_id, r.client_id, r.service_id, r.date_time)

\* db.session.add ... db.session.commit() of a booking that passed its checks
CommitBookingResult(r) ==
    InsertBooking([r.data EXCEPT !.business_id = The(r.data.business_id)],
                  r.user_id, r.client_id, r.service_id, r.date_time)

commit_appointment(w) ==
    \E r \in inflight :
        /\ r.worker = w
        /\ LET c == CommitBookingResult(r)
           IN  /\ appointments' = c.appointments
               /\ calendar' = c.calendar
               /\ resp' = Response("create_appointment", c.code, r.data, c.body, Some(r))
        /\ inflight' = inflight \ {r}
        /\ UNCHANGED <<now, entityVars, payments, admins, tokens, client_services>>

----------------------------------------------------------------------------
\* The clock.
Tick ==
    /\ now < Now0 + MaxTicks
    /\ now' = now + 1
    /\ resp' = Response("tick", 0, <<>>, NoBody, None)
    /\ UNCHANGED <<entityVars, otherVars, schedVars, payments>>

----------------------------------------------------------------------------
Init ==
    /\ now = Now0
    /\ users = InitUsers
    /\ clients = InitClients
    /\ services = InitServices
    /\ businesses = InitBusinesses
    /\ appointments = <<>>
    /\ calendar = {}
    /\ payments = {}
    /\ admins = InitAdmins
    /\ tokens = {}
    /\ client_services = {}
    /\ inflight = {}
    /\ resp = Response("init", 0, <<>>, NoBody, None)

\* A booking request body; absent keys are None.
BookRequest(user_id, date_time, duration_hours, status) ==
    [user_id |-> user_id, user_name |-> None,
     client_id |-> Some(1), client_name |-> None,
     service_id |-> Some(1), service_name |-> None,
     business_id |-> Some(1),
     date_time |-> date_time,
     duration_hours |-> duration_hours,
     status |-> status]

\* The scheduler: bookings of employee 1 with the default duration and status,
\* updates and cancellations.
SchedDateTimes == {Now0, Now0 + 1, Now0 + 2}

SchedBookRequests ==
    {BookRequest(Some(1), Some(Iso(t)), None, None) : t \in SchedDateTimes}

\* The ids requests name: those of the rows there are, and one more.
AppointmentIds == 1..(Len(appointments) + 1)

UpdateRequest(date_time, status) == [date_time |-> date_time, status |-> status]

\* Updates of one field, the empty body, and a valid date with an invalid status.
UpdateRequests ==
    {UpdateRequest(Some(Iso(t)), None) : t \in SchedDateTimes}
    \cup {UpdateRequest(Some(BadIso), None), UpdateRequest(None, None)}
    \cup {UpdateRequest(None, Some(v)) : v \in ValidStatuses \cup {"invalid"}}
    \cup {UpdateRequest(Some(Iso(Now0 + 3)), Some("invalid"))}

NextSched ==
    \/ \E data \in SchedBookRequests :
          create_appointment(data) /\ Len(appointments') <= MaxAppointments
    \/ \E id \in AppointmentIds, data \in UpdateRequests : update_appointment(id, data)
    \/ \E id \in AppointmentIds : delete_appointment(id)

SpecSched == Init /\ [][NextSched]_vars

----------------------------------------------------------------------------
\* Conflict detection: bookings of the two employees at two instants, with
\* every status a caller may supply.
ConflictBookRequests ==
    {BookRequest(Some(u), Some(Iso(t)), None, st) :
        u \in 1..2, t \in {Now0 + 1, Now0 + 2},
        st \in {None} \cup {Some(v) : v \in ValidStatuses}}

NextConflict ==
    \E data \in ConflictBookRequests :
        create_appointment(data) /\ Len(appointments') <= MaxAppointments

SpecConflict == Init /\ [][NextConflict]_vars

----------------------------------------------------------------------------
\* Booking: one employee, every instant, durations that stay within the day,
\* cross midnight, are zero or negative, and requests with one defect each.
BookDurations == {None, Some(1), Some(2), Some(0), Some(-1)}

GoodBookRequests ==
    {BookRequest(Some(1), Some(Iso(t)), d, st) :
        t \in DateTimes, d \in BookDurations, st \in {None, Some("confirmed")}}

GoodBookRequest == BookRequest(Some(1), Some(Iso(Now0 + 1)), None, None)

DefectBookRequests ==
    {[GoodBookRequest EXCEPT !.user_id = u] : u \in {None, Some(3), Some(4)}}
    \cup {[GoodBookRequest EXCEPT !.user_id = None, !.user_name = Some(n)] :
            n \in {<<"user", 1>>, <<"user", 3>>, <<"nobody">>}}
    \cup {[GoodBookRequest EXCEPT !.client_id = c] : c \in {None, Some(2), Some(3)}}
    \cup {[GoodBookRequest EXCEPT !.client_id = None, !.client_name = Some(n)] :
            n \in {<<"client", 1>>, <<"nobody">>}}
    \cup {[GoodBookRequest EXCEPT !.service_id = c] : c \in {None, Some(2), Some(3)}}
    \cup {[GoodBookRequest EXCEPT !.service_id = None, !.service_name = Some(n)] :
            n \in {<<"service", 1>>, <<"nobody">>}}
    \cup {[GoodBookRequest EXCEPT !.business_id = b] : b \in {None, Some(2), Some(3)}}
    \cup {[GoodBookRequest EXCEPT !.date_time = d] : d \in {None, Some(BadIso)}}

NextBook ==
    \/ \E data \in GoodBookRequests \cup DefectBookRequests :
          create_appointment(data) /\ Len(appointments') <= MaxBooked
    \/ Tick

SpecBook == Init /\ [][NextBook]_vars

----------------------------------------------------------------------------
\* The calendar: one booking and every calendar operation on its event.
CalBookRequests ==
    {BookRequest(Some(1), Some(Iso(t)), None, None) : t \in {Now0 + 1}}

CalUpdateRequests ==
    {UpdateRequest(Some(Iso(Now0 + 3)), Some("completed"))}

EventRequest(appointment_id, start, end, google_event_id) ==
    [appointment_id |-> appointment_id, business_id |-> None,
     start_date_time |-> start, end_date_time |-> end,
     google_event_id |-> google_event_id]

CreateEventRequests ==
    {EventRequest(Some(a), Some(Iso(Now0 + 1)), Some(Iso(e)), None) :
        a \in AppointmentIds, e \in {Now0 + 1, Now0 + 2}}
    \cup {EventRequest(Some(1), Some(Iso(Now0 + 1)), Some(Iso(Now0 + 2)), Some("g1")),
          EventRequest(Some(1), Some(BadIso), Some(Iso(Now0 + 2)), None),
          EventRequest(None, Some(Iso(Now0 + 1)), Some(Iso(Now0 + 2)), None)}

EventUpdate(start, end, google_event_id) ==
    [start_date_time |-> start, end_date_time |-> end,
     google_event_id |-> google_event_id]

CalUpdateEventRequests ==
    {EventUpdate(None, Some(Iso(Now0 + 3)), None),
     EventUpdate(None, None, Some(JsonNull))}

\* The ids of calendar rows requests name: those there are, and one more.
EventIds == {e.id : e \in calendar} \cup {NewCalendarId}

SyncRequest(access_token) == [access_token |-> access_token]

GoogleResponse(status_code, id) == [status_code |-> status_code, id |-> id]

CalGoogleResponses ==
    {GoogleResponse(200, Some("abc123")), GoogleResponse(500, None)}

EventIdsBounded == \A e \in calendar' : e.id <= MaxEventId

NextCal ==
    \/ \E data \in CalBookRequests :
          /\ create_appointment(data)
          /\ Len(appointments') <= MaxCalAppointments
          /\ EventIdsBounded
    \/ \E id \in AppointmentIds, data \in CalUpdateRequests : update_appointment(id, data)
    \/ \E id \in AppointmentIds : delete_appointment(id)
    \/ \E data \in CreateEventRequests : create_calendar_event(data) /\ EventIdsBounded
    \/ \E id \in EventIds, data \in CalUpdateEventRequests :
          update_calendar_event(id, data)
    \/ \E id \in EventIds : delete_calendar_event(id)
    \/ \E id \in EventIds, google \in CalGoogleResponses :
          sync_event_with_google(id, SyncRequest(Some("token")), google)

SpecCal == Init /\ [][NextCal]_vars

----------------------------------------------------------------------------
\* Event dates: two bookings and updates of their events that carry a new
\* start alone, a new end alone, or both, in order and out of order.
EventBookRequests ==
    {BookRequest(Some(1), Some(Iso(t)), None, None) : t \in {Now0 + 1, Now0 + 2}}

EventDateUpdates ==
    {EventUpdate(Some(s), None, None) :
        s \in {Iso(Now0), Iso(Now0 + 2), Iso(Now0 + 3), BadIso}}
    \cup {EventUpdate(None, Some(e), None) :
            e \in {Iso(Now0 + 1), Iso(Now0 + 3), BadIso}}
    \cup {EventUpdate(Some(Iso(Now0 + 2)), Some(Iso(Now0 + 1)), None),
          EventUpdate(Some(Iso(Now0)), Some(Iso(Now0 + 3)), None)}

NextEvents ==
    \/ \E data \in EventBookRequests :
          create_appointment(data) /\ Len(appointments') <= MaxAppointments
    \/ \E id \in EventIds, data \in EventDateUpdates : update_calendar_event(id, data)

SpecEvents == Init /\ [][NextEvents]_vars

----------------------------------------------------------------------------
\* Synchronisation: one booking, its event given or stripped of an external
\* identifier, and the provider answering with 200, 201 or 500 while time passes.
SyncEventUpdates ==
    {EventUpdate(None, None, Some("g1")), EventUpdate(None, None, Some(JsonNull))}

SyncRequests == {SyncRequest(Some("token")), SyncRequest(None)}

SyncGoogleResponses ==
    {GoogleResponse(200, Some("abc123")), GoogleResponse(201, Some("abc123")),
     GoogleResponse(500, None)}

NextSync ==
    \/ \E data \in CalBookRequests :
          /\ create_appointment(data)
          /\ Len(appointments') <= MaxCalAppointments
    \/ \E id \in EventIds, data \in SyncEventUpdates : update_calendar_event(id, data)
    \/ \E id \in EventIds, data \in SyncRequests, google \in SyncGoogleResponses :
          sync_event_with_google(id, data, google)
    \/ Tick

SpecSync == Init /\ [][NextSync]_vars

----------------------------------------------------------------------------
\* Soft deletion: the rows a booking names are deleted and reactivated
\* between bookings that name them by id or by name.
SoftIds == {1, 3}

Reactivation == [is_active |-> Some(TRUE)]

SoftBookRequests ==
    {GoodBookRequest,
     [GoodBookRequest EXCEPT !.user_id = None, !.user_name = Some(<<"user", 1>>)],
     [GoodBookRequest EXCEPT !.client_id = None, !.client_name = Some(<<"client", 1>>)],
     [GoodBookRequest EXCEPT !.service_id = None, !.service_name = Some(<<"service", 1>>)],
     [GoodBookRequest EXCEPT !.user_id = Some(3)],
     [GoodBookRequest EXCEPT !.business_id = Some(3)]}

NextSoft ==
    \/ \E data \in SoftBookRequests :
          create_appointment(data) /\ Len(appointments') <= MaxBooked
    \/ \E id \in SoftIds : delete_user(id)
    \/ \E id \in SoftIds : delete_client(id)
    \/ \E id \in SoftIds : delete_service(id)
    \/ \E id \in SoftIds : delete_business(id)
    \/ \E id \in SoftIds :
          update_user(id, [username |-> None] @@ Reactivation)
    \/ \E id \in SoftIds :
          update_client(id, [name |-> None, email |-> None] @@ Reactivation)
    \/ \E id \in SoftIds :
          update_service(id, [name |-> None] @@ Reactivation)
    \/ \E id \in SoftIds : update_business(id, Reactivation)

SpecSoft == Init /\ [][NextSoft]_vars

----------------------------------------------------------------------------
\* Tenants: business 2 is reactivated, and bookings of the employees, the
\* client and the service of business 1 name business 1 or business 2.
TenantBusinessIds == {1, 2}

TenantBookRequests ==
    {[BookRequest(Some(u), Some(Iso(t)), None, None) EXCEPT !.business_id = Some(b)] :
        u \in 1..2, t \in {Now0 + 1, Now0 + 2}, b \in TenantBusinessIds}

NextTenant ==
    \/ \E data \in TenantBookRequests :
          create_appointment(data) /\ Len(appointments') <= MaxAppointments
    \/ \E id \in TenantBusinessIds : update_business(id, Reactivation)
    \/ \E id \in TenantBusinessIds : delete_business(id)

SpecTenant == Init /\ [][NextTenant]_vars

----------------------------------------------------------------------------
\* Clients: new clients for business 1, which has two, for business 2, which
\* has none, and for a business that is not stored, with e-mails and national
\* ids that are new or taken.
ClientRequest(name, phone, client_dni, email, business_id) ==
    [name |-> name, phone |-> phone, client_dni |-> client_dni, email |-> email,
     business_id |-> business_id]

CreateClientRequests ==
    {ClientRequest(Some(<<"client", 3>>), Some("phone"), Some(<<"dni", d>>),
                   Some(<<"email", e>>), b) :
        d \in {1, 3, 4}, e \in {1, 3, 4}, b \in {None, Some(1), Some(2), Some(3)}}

ClientUpdates ==
    {[name |-> None, email |-> Some(<<"email", 1>>), is_active |-> None],
     [name |-> Some(<<"client", 1>>), email |-> None, is_active |-> None],
     [name |-> None, email |-> None, is_active |-> None]}

NextClients ==
    \/ \E data \in CreateClientRequests :
          create_client(data) /\ Len(clients') <= MaxClients
    \/ \E id \in 1..(Len(clients) + 1), data \in ClientUpdates : update_client(id, data)
    \/ \E id \in 1..(Len(clients) + 1) : delete_client(id)

SpecClients == Init /\ [][NextClients]_vars

----------------------------------------------------------------------------
\* Client services: assignments of the services to client 1, completed with a
\* date, with a text that is no date, with null, or with no date at all.
ClientServiceRequests ==
    {[client_id |-> c, service_id |-> sv] :
        c \in {None, Some(1), Some(2)}, sv \in {None, Some(1), Some(2)}}

CompleteRequests ==
    {[completed_date |-> d] :
        d \in {None, Some(Iso(Now0 + 1)), Some(BadIso), Some(NullDate)}}

\* The ids of client-service rows requests name: those there are, and one more.
ClientServiceIds == {c.id : c \in client_services} \cup {NewClientServiceId}

NextClientServices ==
    \/ \E data \in ClientServiceRequests :
          /\ create_client_service(data)
          /\ \A c \in client_services' : c.id <= MaxClientServiceId
    \/ \E id \in ClientServiceIds, data \in CompleteRequests :
          complete_client_service(id, data)
    \/ \E id \in ClientServiceIds : mark_pending_client_service(id)
    \/ \E id \in ClientServiceIds : delete_client_service(id)
    \/ Tick

SpecClientServices == Init /\ [][NextClientServices]_vars

----------------------------------------------------------------------------
\* Payments of client 1: amounts of whole hundredths and amounts with a third
\* decimal, and requests with one defect each.
PaymentRequest(client_id, payment_method, estimated_total, payments_made, payment_date) ==
    [client_id |-> client_id, payment_method |-> payment_method,
     estimated_total |-> estimated_total, payments_made |-> payments_made,
     payment_date |-> payment_date]

GoodPaymentRequest == PaymentRequest(Some(1), Some("cash"), Some(Num(20)), None, None)

CreatePaymentRequests ==
    {PaymentRequest(Some(1), Some("cash"), Some(Num(t)), m, None) :
        t \in {10, 20},
        m \in {None} \cup {Some(Num(v)) : v \in {-10, 10, 16, 20}}}
    \cup {[GoodPaymentRequest EXCEPT !.client_id = c] : c \in {None, Some(2), Some(3)}}
    \cup {[GoodPaymentRequest EXCEPT !.payment_method = m] : m \in {None, Some("cheque")}}
    \cup {[GoodPaymentRequest EXCEPT !.estimated_total = t] :
            t \in {None, Some(BadNumber), Some(Num(0))}}
    \cup {[GoodPaymentRequest EXCEPT !.payments_made = Some(BadNumber)]}
    \cup {[GoodPaymentRequest EXCEPT !.payment_date = d] :
            d \in {Some(Iso(Now0)), Some(BadIso)}}

PaymentUpdate(payment_method, payments_made, estimated_total, payment_date) ==
    [payment_method |-> payment_method, payments_made |-> payments_made,
     estimated_total |-> estimated_total, payment_date |-> payment_date]

UpdatePaymentRequests ==
    {PaymentUpdate(Some(m), None, None, None) : m \in {"card", "cheque"}}
    \cup {PaymentUpdate(None, Some(m), None, None) :
            m \in {BadNumber} \cup {Num(v) : v \in {-10, 0, 16, 20}}}
    \cup {PaymentUpdate(None, None, Some(t), None) :
            t \in {BadNumber} \cup {Num(v) : v \in {0, 10, 16, 20}}}
    \cup {PaymentUpdate(None, Some(Num(20)), Some(Num(20)), None),
          PaymentUpdate(None, Some(Num(20)), Some(Num(10)), None),
          PaymentUpdate(None, Some(Num(10)), Some(BadNumber), None),
          PaymentUpdate(Some("card"), Some(Num(10)), Some(Num(0)), None)}
    \cup {PaymentUpdate(None, None, None, d) :
            d \in {Some(NullDate), Some(Iso(Now0)), Some(BadIso)}}
    \cup {PaymentUpdate(None, None, None, None)}

Instalment(amount, payment_method, payment_date) ==
    [amount |-> amount, payment_method |-> payment_method, payment_date |-> payment_date]

AddPaymentRequests ==
    {Instalment(a, None, None) :
        a \in {None, Some(BadNumber)} \cup {Some(Num(v)) : v \in {0, 4, 10, 20}}}
    \cup {Instalment(Some(Num(10)), Some(m), None) : m \in {"card", "cheque"}}
    \cup {Instalment(Some(Num(10)), None, Some(d)) : d \in {Iso(Now0), BadIso}}

\* The ids of payment rows requests name: those there are, and one more.
PaymentIds == {q.id : q \in payments} \cup {NewPaymentId}

NextPay ==
    \/ \E data \in CreatePaymentRequests :
          create_payment(data) /\ \A q \in payments' : q.id <= MaxPaymentId
    \/ \E id \in PaymentIds, data \in UpdatePaymentRequests : update_payment(id, data)
    \/ \E id \in PaymentIds, data \in AddPaymentRequests : add_payment_to_record(id, data)
    \/ \E id \in PaymentIds : delete_payment(id)

SpecPay == Init /\ [][NextPay]_vars

----------------------------------------------------------------------------
\* Authorization: employees and the administrator log in, with the right and
\* with a wrong password, and call the routes kept for administrators with
\* the tokens they were given.
LoginRequest(username, password) == [username |-> username, password |-> password]

UserLoginRequests ==
    {LoginRequest(Some(<<"user", i>>), Some(<<"password", "user", j>>)) :
        i \in 1..3, j \in 1..2}
    \cup {LoginRequest(Some(<<"nobody">>), Some(<<"password", "user", 1>>)),
          LoginRequest(None, None)}

AdminLoginRequests ==
    {LoginRequest(Some(<<"admin", 1>>), Some(<<"password", "admin", j>>)) : j \in 1..2}

AuthPaymentRequests == {GoodPaymentRequest}

AuthUserIds == {2, 4}

NextAuth ==
    \/ \E data \in UserLoginRequests : login_user(data)
    \/ \E data \in AdminLoginRequests : login_admin(data)
    \/ \E data \in AuthPaymentRequests :
          create_payment(data) /\ \A q \in payments' : q.id <= MaxPaymentId
    \/ \E token \in tokens, id \in PaymentIds : delete_payment_with(token, id)
    \/ \E token \in tokens, id \in AuthUserIds : delete_user_with(token, id)

SpecAuth == Init /\ [][NextAuth]_vars

----------------------------------------------------------------------------
\* Concurrent bookings: two workers booking employee 1 at one of two instants.
Workers == {1, 2}

RaceBookRequests ==
    {BookRequest(Some(1), Some(Iso(t)), None, None) : t \in {Now0 + 1, Now0 + 2}}
    \cup {BookRequest(Some(1), Some(Iso(Now0)), None, None)}

NextRace ==
    \/ \E w \in Workers, data \in RaceBookRequests : check_appointment(w, data)
    \/ \E w \in Workers :
          commit_appointment(w) /\ Len(appointments') <= MaxAppointments
    \/ \E id \in AppointmentIds : delete_appointment(id)

SpecRace == Init /\ [][NextRace]_vars

----------------------------------------------------------------------------
\* Properties.

Blocking(a) == a.status \in {"pending", "confirmed"}

\* The instant a request's date_time text denotes.
InstantOf(text) == text[2]

\* The booking request names, by id, an existing active employee, client,
\* service and business, and a parseable date_time strictly in the future.
OtherwiseValid(data) ==
    /\ data.user_id # None /\ data.client_id # None /\ data.service_id # None
    /\ data.business_id # None /\ data.date_time # None
    /\ The(data.user_id) \in DOMAIN users /\ users[The(data.user_id)].is_active
    /\ The(data.client_id) \in DOMAIN clients /\ clients[The(data.client_id)].is_active
    /\ The(data.service_id) \in DOMAIN services /\ services[The(data.service_id)].is_active
    /\ The(data.business_id) \in DOMAIN businesses
    /\ businesses[The(data.business_id)].is_active
    /\ The(data.date_time) # BadIso
    /\ InstantOf(The(data.date_time)) > now

\* The stored appointments of employee E at instant T that block the slot.
BlockersOf(E, T) ==
    {i \in 1..Len(appointments) :
        /\ appointments[i].user_id = E
        /\ appointments[i].date_time = T
        /\ Blocking(appointments[i])}

\* C1: for every employee E and instant T at most one appointment of E at T is
\* pending or confirmed (the claim as stated; update_appointment breaks it).
C1_NoDoubleBooking ==
    \A i, j \in 1..Len(appointments) :
        (/\ i # j
         /\ appointments[i].user_id = appointments[j].user_id
         /\ appointments[i].date_time = appointments[j].date_time
         /\ Blocking(appointments[i]))
        => ~Blocking(appointments[j])

\* C2: a booking that passes every other validation is answered 409, and
\* creates nothing, exactly when an appointment of the same employee at exactly
\* that instant is pending or confirmed.
C2_ConflictIffBlocked ==
    [][(resp'.op = "create_appointment" /\ OtherwiseValid(resp'.req))
        => LET E == The(resp'.req.user_id)
               T == InstantOf(The(resp'.req.date_time))
           IN  /\ (resp'.code = 409) <=> (BlockersOf(E, T) # {})
               /\ (resp'.code = 409) => UNCHANGED <<appointments, calendar>>]_vars

\* C2 witness: a booking was refused with 409 while the same slot also holds an
\* appointment that is cancelled or completed.
C2_Witness ==
    /\ resp.op = "create_appointment" /\ resp.code = 409
    /\ OtherwiseValid(resp.req)
    /\ BlockersOf(The(resp.req.user_id), InstantOf(The(resp.req.date_time))) # {}
    /\ \E i \in 1..Len(appointments) :
          /\ appointments[i].user_id = The(resp.req.user_id)
          /\ appointments[i].date_time = InstantOf(The(resp.req.date_time))
          /\ appointments[i].status \in {"cancelled", "completed"}

\* The events that reference appointment i.
EventsOf(i) == {e \in calendar : e.appointment_id = i}

\* C3: at most one calendar event references any appointment, and
\* create_calendar_event for an appointment that has one is answered 409 and
\* leaves the calendar as it was.
C3_OneEventPerAppointment ==
    /\ [](\A e1, e2 \in calendar : e1.appointment_id = e2.appointment_id => e1 = e2)
    /\ [][(/\ resp'.op = "create_calendar_event"
           /\ resp'.req.appointment_id # None
           /\ EventsOf(The(resp'.req.appointment_id)) # {})
          => (resp'.code = 409 /\ calendar' = calendar)]_vars

\* C3 witness: a second event was asked for an appointment that keeps its one.
C3_Witness ==
    /\ resp.op = "create_calendar_event" /\ resp.code = 409
    /\ Cardinality(EventsOf(The(resp.req.appointment_id))) = 1

\* C4 as stated: every appointment has exactly one calendar event.
C4_ExactlyOneEvent ==
    \A i \in 1..Len(appointments) : Cardinality(EventsOf(i)) = 1

\* C4 amended: every appointment has at most one calendar event; a booking
\* creates the event together with the appointment; and no operation other
\* than delete_calendar_event leaves an appointment that had its event without it.
C4_EventKeptUnlessDeleted ==
    /\ [](\A i \in 1..Len(appointments) : Cardinality(EventsOf(i)) <= 1)
    /\ [][/\ \A i \in (Len(appointments) + 1)..Len(appointments') :
                Cardinality({e \in calendar' : e.appointment_id = i}) = 1
          /\ resp'.op # "delete_calendar_event"
             => \A i \in 1..Len(appointments) :
                   EventsOf(i) # {} => {e \in calendar' : e.appointment_id = i} # {}]_vars

\* C4 witness: delete_calendar_event has left an appointment without an event.
C4_Witness ==
    /\ resp.op = "delete_calendar_event" /\ resp.code = 200
    /\ \E i \in 1..Len(appointments) : EventsOf(i) = {}

\* The hour of day of the instant plus the duration is not an hour of the day.
EventHourOverflows(data) ==
    LET d == IF data.duration_hours = None THEN 1 ELSE The(data.duration_hours)
    IN  (InstantOf(The(data.date_time)) % HoursPerDay) + d \notin 0..(HoursPerDay - 1)

\* C5: when the calendar event cannot be built after the appointment was
\* flushed, the booking is answered with an error and the stored appointments
\* and events are those before the call; the id the appointment would have had
\* is not found.
C5_FailedEventRollsBack ==
    [][(/\ resp'.op = "create_appointment"
        /\ OtherwiseValid(resp'.req)
        /\ BlockersOf(The(resp'.req.user_id), InstantOf(The(resp'.req.date_time))) = {}
        /\ EventHourOverflows(resp'.req))
       => /\ resp'.code >= 400
          /\ appointments' = appointments
          /\ calendar' = calendar
          /\ Get(appointments', Len(appointments) + 1) = None]_vars

\* C5 witness: a valid booking whose event could not be built was answered 500.
C5_Witness ==
    /\ resp.op = "create_appointment" /\ resp.code = 500
    /\ OtherwiseValid(resp.req)
    /\ EventHourOverflows(resp.req)

\* C6: a successful booking has added exactly one appointment, with the status
\* supplied or pending, and exactly one event that references it, starting at
\* date_time and ending duration_hours (1 by default) later, and returns both.
C6_BookingCreatesPair ==
    [][(resp'.op = "create_appointment" /\ resp'.code = 201)
       => LET a == resp'.body.appointment
              e == resp'.body.calendar_event
              T == InstantOf(The(resp'.req.date_time))
              d == IF resp'.req.duration_hours = None THEN 1
                   ELSE The(resp'.req.duration_hours)
          IN  /\ appointments' = Append(appointments, a)
              /\ e \notin calendar
              /\ calendar' = calendar \cup {e}
              /\ a.status = (IF resp'.req.status = None THEN "pending"
                             ELSE The(resp'.req.status))
              /\ a.date_time = T
              /\ e.appointment_id = a.id
              /\ a.id = Len(appointments')
              /\ e.start_date_time = T
              /\ e.end_date_time = T + d]_vars

\* C6 witness: a booking with a supplied status and a two-hour duration succeeded.
C6_Witness ==
    /\ resp.op = "create_appointment" /\ resp.code = 201
    /\ resp.req.status = Some("confirmed")
    /\ resp.req.duration_hours = Some(2)
    /\ resp.body.calendar_event \in calendar

\* C7 as stated: a booking that names valid active entities, a strictly future
\* date_time and a positive whole duration succeeds unless the slot is taken.
C7_ValidBookingSucceeds ==
    (/\ resp.op = "create_appointment"
     /\ OtherwiseValid(resp.req)
     /\ (resp.req.duration_hours = None \/ The(resp.req.duration_hours) > 0))
    => resp.code \in {201, 409}

\* The amount a request leaves in a field: the one it sends, else the stored one.
Requested(field, fallback) ==
    IF field = None THEN Some(fallback) ELSE ToDecimal(The(field))

\* A request asks for more paid than the total: on creation; on update, by the
\* amounts the row would hold afterwards; on an instalment, by the sum.
WouldExceed(r) ==
    \/ /\ r.op = "create_payment"
       /\ r.req.estimated_total # None /\ r.req.payments_made # None
       /\ LET t == ToDecimal(The(r.req.estimated_total))
              m == ToDecimal(The(r.req.payments_made))
          IN  t # None /\ m # None /\ The(m) > The(t)
    \/ /\ r.op = "update_payment"
       /\ r.loaded # None
       /\ (r.req.data.payments_made # None \/ r.req.data.estimated_total # None)
       /\ LET m == Requested(r.req.data.payments_made, The(r.loaded).payments_made)
              t == Requested(r.req.data.estimated_total, The(r.loaded).estimated_total)
          IN  t # None /\ m # None /\ The(m) > The(t)
    \/ /\ r.op = "add_payment_to_record"
       /\ r.loaded # None
       /\ r.req.data.amount # None
       /\ LET a == ToDecimal(The(r.req.data.amount))
          IN  /\ a # None
              /\ The(r.loaded).payments_made + The(a) > The(r.loaded).estimated_total

\* C8: every stored payment has 0 <= payments_made <= estimated_total, and a
\* create, update or instalment request that would leave more paid than the
\* total is answered with an error and stores nothing.
C8_PaidWithinTotal ==
    /\ [](\A q \in payments :
             0 <= q.payments_made /\ q.payments_made <= q.estimated_total)
    /\ [][WouldExceed(resp') => (resp'.code = 400 /\ payments' = payments)]_vars

\* C8 witness: an instalment that would overshoot a partly paid payment was
\* refused and the row still holds what it held.
C8_Witness ==
    /\ resp.op = "add_payment_to_record" /\ resp.code = 400
    /\ WouldExceed(resp)
    /\ LET a == The(ToDecimal(The(resp.req.data.amount)))
       IN  /\ a > 0
           /\ The(resp.loaded).payments_made > 0
           /\ The(resp.loaded).payments_made < The(resp.loaded).estimated_total
    /\ The(resp.loaded) \in payments

\* C9 as stated: after a successful create, update or instalment the stored
\* row is paid exactly when its payments_made equals its estimated_total.
C9_PaidIffSettled ==
    (/\ resp.op \in {"create_payment", "update_payment", "add_payment_to_record"}
     /\ resp.code \in {200, 201})
    => \A q \in payments :
          q.id = resp.body.id
          => (q.status = "paid" <=> q.payments_made = q.estimated_total)

\* C10: delete_appointment on an appointment that is already cancelled is
\* answered 200 and changes no stored row.
C10_CancelIdempotent ==
    [][(/\ resp'.op = "delete_appointment"
        /\ resp'.req.appointment_id \in 1..Len(appointments)
        /\ appointments[resp'.req.appointment_id].status = "cancelled")
       => /\ resp'.code = 200
          /\ UNCHANGED <<appointments, calendar, payments, entityVars, otherVars>>]_vars

\* C10 witness: an appointment that was loaded as cancelled was cancelled again.
C10_Witness ==
    /\ resp.op = "delete_appointment" /\ resp.code = 200
    /\ resp.loaded # None
    /\ The(resp.loaded).status = "cancelled"
    /\ appointments[resp.req.appointment_id].status = "cancelled"

\* C11: no appointment or calendar operation removes an appointment: every id
\* stored before a step is stored after it, and a successful delete_appointment
\* changes nothing but the status of its appointment, which becomes cancelled.
C11_AppointmentsNeverRemoved ==
    [][/\ \A i \in 1..Len(appointments) :
             \E j \in 1..Len(appointments') : appointments'[j].id = appointments[i].id
       /\ (resp'.op = "delete_appointment" /\ resp'.code = 200)
          => /\ appointments' =
                   [appointments EXCEPT ![resp'.req.appointment_id].status = "cancelled"]
             /\ calendar' = calendar]_vars

\* C11 witness: a pending appointment was cancelled and is still stored, with
\* its calendar event, under the id it was booked with.
C11_Witness ==
    /\ resp.op = "delete_appointment" /\ resp.code = 200
    /\ The(resp.loaded).status = "pending"
    /\ appointments[resp.req.appointment_id].id = resp.req.appointment_id
    /\ appointments[resp.req.appointment_id].status = "cancelled"
    /\ EventsOf(resp.req.appointment_id) # {}

\* The stored event with the id of the one a step loaded.
EventAfter(r) == {e \in calendar : e.id = The(r.loaded).id}

\* A sync step reached the provider: the event exists and a token was sent.
SyncCalled(r) ==
    /\ r.op = "sync_event_with_google"
    /\ r.loaded # None
    /\ r.req.data.access_token # None

\* C12: a sync of an event without external identifier issues a create call
\* and, when the provider answers with success (status 200), stores the
\* returned identifier and stamps last_sync; a sync of an event that has an
\* identifier issues an update call for that identifier and, on success,
\* stamps last_sync and keeps the identifier.  Nothing else of the event changes.
C12_SyncCreatesOrUpdates ==
    [][SyncCalled(resp')
       => LET event == The(resp'.loaded)
              google == resp'.req.google
          IN  IF event.google_event_id = None
              THEN /\ resp'.req.call = <<"POST">>
                   /\ google.status_code = 200
                      => /\ resp'.code < 400
                         /\ calendar' = (calendar \ {event}) \cup
                               {[event EXCEPT !.google_event_id = google.id,
                                              !.last_sync = Some(now)]}
              ELSE /\ resp'.req.call = <<"PUT", The(event.google_event_id)>>
                   /\ google.status_code = 200
                      => /\ resp'.code < 400
                         /\ calendar' = (calendar \ {event}) \cup
                               {[event EXCEPT !.last_sync = Some(now)]}]_vars

\* C12 witness: an event whose identifier differs from the one the provider
\* answered with was synced on the update path, later than its last sync.
C12_Witness ==
    /\ SyncCalled(resp) /\ resp.code = 200
    /\ The(resp.loaded).google_event_id = Some("g1")
    /\ resp.req.google.id = Some("abc123")
    /\ The(resp.loaded).last_sync # Some(now)
    /\ \E e \in EventAfter(resp) :
          e.google_event_id = Some("g1") /\ e.last_sync = Some(now)

\* C13: when the provider answers a sync call with a status that is not a
\* success, the sync is answered with an error and the calendar is exactly as
\* before, on the create path and on the update path.
C13_FailedSyncChangesNothing ==
    [][(SyncCalled(resp') /\ resp'.req.google.status_code \notin 200..299)
       => (resp'.code >= 400 /\ calendar' = calendar)]_vars

\* C13 witness: the provider refused the create call for an event that has
\* never been synced, and the event still has no identifier and no last_sync.
C13_Witness ==
    /\ SyncCalled(resp) /\ resp.code = 400
    /\ resp.req.google.status_code = 500
    /\ resp.req.call = <<"POST">>
    /\ \E e \in EventAfter(resp) : e.google_event_id = None /\ e.last_sync = None

\* C14 as stated: when the provider answers the create call for an event
\* without identifier with status 201 and an id, the sync succeeds and the
\* event holds that id and a last_sync.
C14_Created201Succeeds ==
    (/\ SyncCalled(resp)
     /\ The(resp.loaded).google_event_id = None
     /\ resp.req.google.status_code = 201
     /\ resp.req.google.id # None)
    => /\ resp.code < 400
       /\ \E e \in EventAfter(resp) :
             e.google_event_id = resp.req.google.id /\ e.last_sync # None

\* C16: a booking whose date_time is the current time of the call or earlier is
\* answered with a client error and stores no appointment and no event.
C16_PastBookingRejected ==
    [][(/\ resp'.op = "create_appointment"
        /\ resp'.req.date_time # None
        /\ The(resp'.req.date_time) # BadIso
        /\ InstantOf(The(resp'.req.date_time)) <= now)
       => /\ resp'.code \in 400..499
          /\ appointments' = appointments
          /\ calendar' = calendar]_vars

\* C16 witness: a booking with nothing wrong but its date_time, which is the
\* very instant of the call, was refused.
C16_Witness ==
    /\ resp.op = "create_appointment" /\ resp.code = 400
    /\ OtherwiseValid([resp.req EXCEPT !.date_time = Some(Iso(now + 1))])
    /\ resp.req.date_time = Some(Iso(now))
    /\ BlockersOf(The(resp.req.user_id), now) = {}

\* The row a booking resolves for a table: the one with the id it gives,
\* else the one with the name it gives ({} when there is none or no key).
Resolved(table, id, byName) ==
    IF id # None THEN Get(table, The(id))
    ELSE IF byName # None THEN Get(table, The(byName))
    ELSE None

\* A booking names an employee, client, service or business that is not
\* stored or is inactive.
NamesMissingOrInactive(data) ==
    LET user == Resolved(users, data.user_id,
                    IF data.user_name = None THEN None
                    ELSE UserIdByName(The(data.user_name)))
        client == Resolved(clients, data.client_id,
                    IF data.client_name = None THEN None
                    ELSE ClientIdByName(The(data.client_name)))
        service == Resolved(services, data.service_id,
                    IF data.service_name = None THEN None
                    ELSE ServiceIdByName(The(data.service_name)))
        business == Resolved(businesses, data.business_id, None)
        Bad(row) == row = None \/ ~The(row).is_active
    IN  \/ (data.user_id # None \/ data.user_name # None) /\ Bad(user)
        \/ (data.client_id # None \/ data.client_name # None) /\ Bad(client)
        \/ (data.service_id # None \/ data.service_name # None) /\ Bad(service)
        \/ data.business_id # None /\ Bad(business)

\* C15: a booking whose resolved employee, client or service, or whose
\* business, is not stored or is inactive is answered with a client error and
\* stores no appointment and no event; so a soft-deleted row cannot be booked
\* until it is active again.
C15_InactiveNotBookable ==
    [][(resp'.op = "create_appointment" /\ NamesMissingOrInactive(resp'.req))
       => /\ resp'.code \in 400..499
          /\ appointments' = appointments
          /\ calendar' = calendar]_vars

\* C15 witness: a booking that names, by name, a client that was active at
\* first and has been soft-deleted was refused, everything else about it valid.
C15_Witness ==
    /\ resp.op = "create_appointment" /\ resp.code = 400
    /\ resp.req.client_id = None
    /\ resp.req.client_name = Some(<<"client", 1>>)
    /\ ~clients[1].is_active
    /\ users[1].is_active /\ services[1].is_active /\ businesses[1].is_active
    /\ appointments = <<>>

\* C17 as stated: create_client for a stored business with an e-mail and a
\* national id not in use succeeds, and the number in its CLI-NNN is 1 when
\* the business had no client, else one more than the number of the client of
\* the business created last.  (A call that failed left the table as it was,
\* so "in use" can be read off the table after it.)
C17_ClientNumberSequential ==
    (/\ resp.op = "create_client"
     /\ resp.req.name # None /\ resp.req.phone # None
     /\ resp.req.client_dni # None /\ resp.req.email # None
     /\ resp.req.business_id # None
     /\ Get(businesses, The(resp.req.business_id)) # None)
    => IF resp.code = 201
       THEN clients[Len(clients)].client_id_number =
               ClientIdNumber(IF resp.loaded = None THEN 1
                              ELSE NumberOf(The(resp.loaded).client_id_number) + 1)
       ELSE \/ ClientIdByEmail(The(resp.req.email)) # None
            \/ ClientIdByDni(The(resp.req.client_dni)) # None

\* C18: an assignment that is not completed has no completed_date, and a
\* complete call whose date does not parse is refused and leaves the stored
\* assignments as they were.
C18_PendingHasNoDate ==
    /\ [](\A c \in client_services : ~c.completed => c.completed_date = None)
    /\ [][(/\ resp'.op = "complete_client_service"
           /\ resp'.loaded # None
           /\ resp'.req.data.completed_date # None
           /\ FromIsoFormat(The(resp'.req.data.completed_date)) = None)
          => (resp'.code = 400 /\ client_services' = client_services)]_vars

\* C18 witness: an assignment that had been completed with a date was put
\* back to pending and holds no date.
C18_Witness ==
    /\ resp.op = "mark_pending_client_service" /\ resp.code = 200
    /\ The(resp.loaded).completed
    /\ The(resp.loaded).completed_date # None
    /\ \E c \in client_services :
          c.id = The(resp.loaded).id /\ ~c.completed /\ c.completed_date = None

\* C19 as stated: a call of a route kept for administrators with a token that
\* the employee login issued is refused by the decorator.
C19_EmployeeTokenRefused ==
    (/\ resp.op \in {"delete_payment", "delete_user"}
     /\ resp.req.token.login = "user")
    => resp.code \in {401, 403}

\* C20: nothing is locked between the conflict check and the commit: the
\* commit of a booking that passed its check succeeds and stores a pending
\* appointment and its event even when, since the check, another booking of
\* the same employee at the same instant was committed; both are persisted.
C20_RaceDoubleBooks ==
    [][(/\ resp'.op = "create_appointment"
        /\ resp'.loaded # None
        /\ BlockersOf(The(resp'.loaded).user_id, The(resp'.loaded).date_time) # {})
       => /\ resp'.code = 201
          /\ Len(appointments') = Len(appointments) + 1
          /\ Cardinality({i \in 1..Len(appointments') :
                /\ appointments'[i].user_id = The(resp'.loaded).user_id
                /\ appointments'[i].date_time = The(resp'.loaded).date_time
                /\ appointments'[i].status = "pending"}) >= 2]_vars

\* C20 witness: both workers passed the check for the same employee and
\* instant before either committed, and two pending appointments are stored.
C20_Witness ==
    /\ resp.op = "create_appointment" /\ resp.code = 201
    /\ resp.loaded # None
    /\ inflight = {}
    /\ Len(appointments) = 2
    /\ appointments[1].user_id = appointments[2].user_id
    /\ appointments[1].date_time = appointments[2].date_time
    /\ appointments[1].status = "pending" /\ appointments[2].status = "pending"
    /\ Cardinality(EventsOf(1)) = 1 /\ Cardinality(EventsOf(2)) = 1

----------------------------------------------------------------------------
\* The update request r carries a date_time that is no date or is not strictly
\* in the future, or a status outside the four valid ones.
InvalidUpdate(r) ==
    \/ /\ r.data.date_time # None
       /\ \/ The(r.data.date_time) = BadIso
          \/ InstantOf(The(r.data.date_time)) <= now
    \/ /\ r.data.status # None
       /\ The(r.data.status) \notin ValidStatuses

\* C21: update_appointment on a stored appointment is answered 400 when the
\* supplied date_time is not strictly in the future or the supplied status is
\* not pending, confirmed, cancelled or completed, and every update answered
\* with an error leaves every stored appointment as it was, also when the
\* request carries a valid new date_time together with an invalid status.
C21_InvalidUpdateRejected ==
    [][resp'.op = "update_appointment"
       => /\ (resp'.loaded # None /\ InvalidUpdate(resp'.req)) => resp'.code = 400
          /\ resp'.code # 200 => UNCHANGED <<appointments, calendar>>]_vars

\* C21 witness: an update with a valid, strictly future date_time and an
\* invalid status was refused, and the appointment is still at its old instant.
C21_Witness ==
    /\ resp.op = "update_appointment" /\ resp.code = 400
    /\ resp.loaded # None
    /\ resp.req.data.date_time # None /\ resp.req.data.status # None
    /\ The(resp.req.data.date_time) # BadIso
    /\ InstantOf(The(resp.req.data.date_time)) > now
    /\ The(resp.req.data.status) \notin ValidStatuses
    /\ appointments[resp.req.appointment_id] = The(resp.loaded)
    /\ The(resp.loaded).date_time # InstantOf(The(resp.req.data.date_time))

----------------------------------------------------------------------------
\* The row an update request r writes over the row it loaded.
UpdatedRow(r) ==
    LET dated == IF r.req.data.date_time = None THEN The(r.loaded)
                 ELSE [The(r.loaded) EXCEPT
                          !.date_time = InstantOf(The(r.req.data.date_time))]
    IN  IF r.req.data.status = None THEN dated
        ELSE [dated EXCEPT !.status = The(r.req.data.status)]

\* C22: update_appointment runs no conflict detection: an update of a stored
\* appointment that names a strictly future date_time and/or a valid status is
\* answered 200 and stores the row as requested, whatever the other
\* appointments of the employee are; in particular when another pending or
\* confirmed appointment already holds the new instant, and when a cancelled
\* appointment is set back to pending or confirmed.
C22_UpdateIgnoresConflicts ==
    [][(/\ resp'.op = "update_appointment"
        /\ resp'.loaded # None
        /\ (resp'.req.data.date_time # None \/ resp'.req.data.status # None)
        /\ ~InvalidUpdate(resp'.req))
       => /\ resp'.code = 200
          /\ appointments' =
                [appointments EXCEPT ![resp'.req.appointment_id] = UpdatedRow(resp')]]_vars

\* C22 witness: an appointment was moved onto an instant where another pending
\* or confirmed appointment of the same employee already stood, and both are
\* now stored there as pending or confirmed.
C22_Witness ==
    /\ resp.op = "update_appointment" /\ resp.code = 200
    /\ resp.req.data.date_time # None
    /\ The(resp.loaded).date_time # InstantOf(The(resp.req.data.date_time))
    /\ LET mine == appointments[resp.req.appointment_id]
       IN  /\ Blocking(mine)
           /\ mine.date_time = InstantOf(The(resp.req.data.date_time))
           /\ \E j \in 1..Len(appointments) :
                 /\ j # resp.req.appointment_id
                 /\ appointments[j].user_id = mine.user_id
                 /\ appointments[j].date_time = mine.date_time
                 /\ Blocking(appointments[j])

----------------------------------------------------------------------------
\* The start and the end an event update r asks for: the supplied bound, or
\* the stored one of the loaded event for the bound the request leaves out.
ResultingStart(r) ==
    IF r.req.data.start_date_time = None THEN The(r.loaded).start_date_time
    ELSE InstantOf(The(r.req.data.start_date_time))
ResultingEnd(r) ==
    IF r.req.data.end_date_time = None THEN The(r.loaded).end_date_time
    ELSE InstantOf(The(r.req.data.end_date_time))

\* The update r of a stored event carries exactly one of start and end, and
\* the one it carries is a date.
OneBoundUpdate(r) ==
    /\ r.op = "update_calendar_event"
    /\ r.loaded # None
    /\ (r.req.data.start_date_time = None) # (r.req.data.end_date_time = None)
    /\ r.req.data.start_date_time # Some(BadIso)
    /\ r.req.data.end_date_time # Some(BadIso)

\* C23: update_calendar_event given only a new start, or only a new end,
\* compares it with the stored other bound of the event: when the resulting
\* start is not strictly before the resulting end the request is answered 400
\* and the calendar is unchanged, otherwise it is answered 200 and the event
\* holds the resulting start and end.
C23_OneBoundValidated ==
    [][OneBoundUpdate(resp')
       => IF ResultingStart(resp') < ResultingEnd(resp')
          THEN /\ resp'.code = 200
               /\ \E e \in calendar' :
                     /\ e.id = resp'.req.event_id
                     /\ e.start_date_time = ResultingStart(resp')
                     /\ e.end_date_time = ResultingEnd(resp')
          ELSE resp'.code = 400 /\ calendar' = calendar]_vars

\* C23 witness: an update carrying only a start that is not before the stored
\* end was refused and the event is stored as it was loaded.
C23_Witness ==
    /\ OneBoundUpdate(resp) /\ resp.code = 400
    /\ resp.req.data.start_date_time # None
    /\ ResultingStart(resp) >= The(resp.loaded).end_date_time
    /\ The(resp.loaded) \in calendar

----------------------------------------------------------------------------
\* The update request r carries a payments_made the handler accepts and
\* applies to the loaded row, and an estimated_total it then refuses.
MadeAppliedTotalRefused(r) ==
    /\ r.op = "update_payment" /\ r.loaded # None
    /\ r.req.data.payments_made # None /\ r.req.data.estimated_total # None
    /\ (r.req.data.payment_method # None
          => The(r.req.data.payment_method) \in ValidMethods)
    /\ LET m == ToDecimal(The(r.req.data.payments_made))
           t == ToDecimal(The(r.req.data.estimated_total))
       IN  /\ m # None
           /\ 0 <= The(m) /\ The(m) <= The(r.loaded).estimated_total
           /\ (t = None \/ The(t) <= 0 \/ The(m) > The(t))

\* The instalment r carries an amount the handler accepts and adds to the
\* loaded row, and a payment date it cannot parse.
AmountAppliedDateRefused(r) ==
    /\ r.op = "add_payment_to_record" /\ r.loaded # None
    /\ r.req.data.amount # None /\ r.req.data.payment_date # None
    /\ The(r.req.data.payment_date) = BadIso
    /\ LET a == ToDecimal(The(r.req.data.amount))
       IN  /\ a # None /\ The(a) > 0
           /\ The(r.loaded).payments_made + The(a) <= The(r.loaded).estimated_total

\* C24: update_payment and add_payment_to_record answered with an error leave
\* the payments table as it was; in particular a request whose payments_made
\* (or amount) was already applied to the loaded row and whose estimated_total
\* (or payment date) is then refused is answered 400, and the stored payment
\* keeps its payments_made, status and every other value.
C24_RejectedPaymentUnchanged ==
    [][/\ (resp'.op \in {"update_payment", "add_payment_to_record"}
            /\ resp'.code # 200) => payments' = payments
       /\ (MadeAppliedTotalRefused(resp') \/ AmountAppliedDateRefused(resp'))
             => (resp'.code = 400 /\ payments' = payments)]_vars

\* C24 witness: an update whose payments_made differs from the stored one and
\* was applied, and whose estimated_total was refused, left the row as loaded.
C24_Witness ==
    /\ MadeAppliedTotalRefused(resp) /\ resp.code = 400
    /\ The(ToDecimal(The(resp.req.data.payments_made))) # The(resp.loaded).payments_made
    /\ The(resp.loaded) \in payments

----------------------------------------------------------------------------
\* C25 as stated: every stored calendar event starts strictly before it ends,
\* whichever of create_appointment (with any duration_hours, zero and negative
\* included), create_calendar_event and update_calendar_event stored it.
C25_EventStartBeforeEnd ==
    \A e \in calendar : e.start_date_time < e.end_date_time

----------------------------------------------------------------------------
\* C26 as stated: the employee, the client and the service of every stored
\* appointment belong to the business the appointment itself names.
C26_AppointmentWithinOneBusiness ==
    \A i \in 1..Len(appointments) :
        LET a == appointments[i]
        IN  /\ users[a.user_id].business_id = a.business_id
            /\ clients[a.client_id].business_id = a.business_id
            /\ services[a.service_id].business_id = a.business_id

----------------------------------------------------------------------------
\* C27: update_appointment and delete_appointment leave the calendar table as
\* it was: every event keeps its start, end, external identifier and last
\* synchronisation, so the start of an event may differ from the date_time of
\* its appointment afterwards.
C27_AppointmentOpsKeepEvents ==
    [][resp'.op \in {"update_appointment", "delete_appointment"}
       => calendar' = calendar]_vars

\* C27 witness: an appointment that has an event was rescheduled, and its
\* event still starts at the instant the appointment had before.
C27_Witness ==
    /\ resp.op = "update_appointment" /\ resp.code = 200
    /\ resp.req.data.date_time # None
    /\ appointments[resp.req.appointment_id].date_time # The(resp.loaded).date_time
    /\ \E e \in calendar :
          /\ e.appointment_id = resp.req.appointment_id
          /\ e.start_date_time = The(resp.loaded).date_time
          /\ e.start_date_time # appointments[resp.req.appointment_id].date_time

----------------------------------------------------------------------------
\* C28 as stated: for every client and service at most one stored assignment
\* of that service to that client is not completed.
C28_OnePendingPerPair ==
    \A c, d \in client_services :
        (/\ c.client_id = d.client_id
         /\ c.service_id = d.service_id
         /\ ~c.completed /\ ~d.completed)
        => c = d

----------------------------------------------------------------------------
\* C29 as stated: every stored calendar event has a last_sync exactly when it
\* has a google_event_id.
C29_LastSyncIffExternalId ==
    \A e \in calendar : (e.last_sync # None) <=> (e.google_event_id # None)

----------------------------------------------------------------------------
\* C30 as stated: update_payment of a stored payment succeeds whenever the
\* request carries both payments_made and estimated_total, with
\* estimated_total > 0 and 0 <= payments_made <= estimated_total, whatever
\* the stored amounts are.
C30_ConsistentPairAccepted ==
    (/\ resp.op = "update_payment" /\ resp.loaded # None
     /\ resp.req.data.payments_made # None /\ resp.req.data.estimated_total # None
     /\ (resp.req.data.payment_method # None
           => The(resp.req.data.payment_method) \in ValidMethods)
     /\ resp.req.data.payment_date \in {None, Some(NullDate)}
     /\ LET m == ToDecimal(The(resp.req.data.payments_made))
            t == ToDecimal(The(resp.req.data.estimated_total))
        IN  /\ m # None /\ t # None
            /\ The(t) > 0 /\ 0 <= The(m) /\ The(m) <= The(t))
    => resp.code = 200

====
